---- MODULE Spec2Model ----
(***************************************************************************)
(* A model of package rqx: one call of Do.  The option fragments are       *)
(* applied to a fresh doParams (newDoParams), the descriptor is validated, *)
(* and the attempt loop of Do runs do: prepareRequest, the pre-send hooks, *)
(* the transport, the post-receive hooks, the success classifier, the      *)
(* error classifiers, the cooldown callback, and the deferred close of the *)
(* response body.                                                          *)
(***************************************************************************)
EXTENDS Integers, Sequences, FiniteSets, TLC

\* ------------------------------------------------------------------ bounds

\* The longest option list handed to Do.
MaxOpts == 3

\* The number of transport sends after which the model stops following a call.
MaxAttempts == 3

\* The segments handed to the URL builder in one call.
MaxPaths == 2

\* The query values handed to the URL builder in one call.
MaxQueries == 2

\* The add operations called on a multipart builder.
MaxSections == 3

\* ------------------------------------------------------------------ values

\* A nil pointer, a nil interface, a nil function.
Nil == "nil"

\* http.StatusOK, the status WithOK() stands for.
StatusOK == 200

\* The status codes the transport may answer with.
Statuses == {StatusOK, 404, 429, 500}

\* The payloads of a response body: one a decoder accepts, one it rejects.
Payloads == {"accepted", "rejected"}

\* The responses the transport may return; body: the payload the server sent,
\* left: what resp.Body still holds, the whole payload at first.
Responses ==
    { [status |-> s, header |-> "h", body |-> b, left |-> b] :
        s \in Statuses, b \in Payloads }

\* The zero http.Response, before the transport has answered.
NoResponse == [status |-> 0, header |-> "", body |-> "", left |-> ""]


\* An error value is the sequence of the errors joined in it; nil is empty.
NoError == << >>

NewError(kind, src) ==
    << [kind |-> kind, src |-> src, status |-> 0, header |-> "", body |-> ""] >>

\* errors.Join: nil operands vanish, the others stay, in order.
Join(a, b) == a \o b

Has(err, kind) == \E i \in DOMAIN err : err[i].kind = kind

ErrBodyAlreadyExists == NewError("ErrBodyAlreadyExists", 0)

errRateLimit == NewError("errRateLimit", 0)

\* params.errorWrapper: nil stays nil, an error is handed back to the caller.
errorWrapper(err) == err

\* ------------------------------------------------------- the descriptor

\* A header key is the sequence of its characters.
HeaderContentType == << "C", "o", "n", "t", "e", "n", "t", "-", "T", "y", "p", "e" >>

HeaderAccept == << "A", "c", "c", "e", "p", "t" >>

HeaderAuthorization ==
    << "A", "u", "t", "h", "o", "r", "i", "z", "a", "t", "i", "o", "n" >>

\* The predefined keys the fragments use without canonicalizing them.
HeaderKeys == {HeaderContentType, HeaderAccept, HeaderAuthorization}

\* http.Header, a map from keys to lists of values: h[k] read, nil for a key
\* that has no entry, and h[k] = v assigned.
Get(h, k) == IF k \in DOMAIN h THEN h[k] ELSE << >>

Put(h, k, v) == [x \in (DOMAIN h) \cup {k} |-> IF x = k THEN v ELSE h[x]]

NoBody == [kind |-> Nil, by |-> 0]

NoOKResponse == [set |-> FALSE, statuses |-> {}, result |-> FALSE]

\* &doParams{headers: make(http.Header)}
NewParams ==
    [ctx |-> Nil,
     client |-> Nil,
     headers |-> << >>,
     body |-> NoBody,
     handler |-> [beforeResponse |-> << >>,
                  afterResponse |-> << >>,
                  okResponse |-> NoOKResponse,
                  errorResponses |-> << >>,
                  rateLimitResponse |-> Nil]]

\* http.NewRequestWithContext(ctx, method, url, body) followed by the copy of the
\* configured headers. The reader in params.body is handed over as it is: the
\* request carries what the reader still holds, which is everything before the
\* transport has read it and what is left of it afterwards.
NoRequest == [headers |-> << >>, body |-> "none"]

NewRequest(headers, body, isRead) ==
    [headers |-> headers,
     body |-> IF body = NoBody THEN "none" ELSE IF isRead THEN "rest" ELSE "full"]

\* ------------------------------------------------------- option fragments

\* An option as the caller wrote it: the fragment and its arguments.
Opt(op, id, statuses, flag) ==
    [op |-> op, id |-> id, statuses |-> statuses, flag |-> flag]

\* What an optparams.Func returns, with the descriptor it leaves behind.
Ok(p) == [params |-> p, err |-> NoError]

Fail(p, err) == [params |-> p, err |-> err]

WithContext(p, f) == Ok([p EXCEPT !.ctx = f.id])

WithClient(p, f) == Ok([p EXCEPT !.client = f.id])

LowerCase ==
    << "a", "b", "c", "d", "e", "f", "g", "h", "i", "j", "k", "l", "m",
       "n", "o", "p", "q", "r", "s", "t", "u", "v", "w", "x", "y", "z" >>

UpperCase ==
    << "A", "B", "C", "D", "E", "F", "G", "H", "I", "J", "K", "L", "M",
       "N", "O", "P", "Q", "R", "S", "T", "U", "V", "W", "X", "Y", "Z" >>

\* The letter of the other case, for every letter.
Uppered == [c \in { LowerCase[n] : n \in DOMAIN LowerCase } |->
              UpperCase[CHOOSE n \in DOMAIN LowerCase : LowerCase[n] = c]]

Lowered == [c \in { UpperCase[n] : n \in DOMAIN UpperCase } |->
              LowerCase[CHOOSE n \in DOMAIN UpperCase : UpperCase[n] = c]]

IsLower(c) == c \in DOMAIN Uppered

IsUpper(c) == c \in DOMAIN Lowered

ToUpper(c) == IF IsLower(c) THEN Uppered[c] ELSE c

ToLower(c) == IF IsUpper(c) THEN Lowered[c] ELSE c

\* The bytes of a header field name: letters and '-' among the characters used
\* here, a space is none.
validHeaderFieldByte(c) == IsLower(c) \/ IsUpper(c) \/ c = "-"

\* textproto.CanonicalMIMEHeaderKey: the first letter and every letter after
\* a '-' in upper case, the others in lower case; a key with a byte that is not
\* valid in a field name is returned as it is.
CanonicalMIMEHeaderKey(s) ==
    IF \E n \in DOMAIN s : ~validHeaderFieldByte(s[n])
    THEN s
    ELSE [n \in DOMAIN s |->
            IF n = 1 \/ s[n - 1] = "-" THEN ToUpper(s[n]) ELSE ToLower(s[n])]

\* optionalBool(appendMode...)
optionalBool(value) == Len(value) > 0 /\ value[1]

withHeaderOptions(isKeyCanonicalized, doesAddValueToEnd) ==
    [isKeyCanonicalized |-> isKeyCanonicalized, doesAddValueToEnd |-> doesAddValueToEnd]

\* withHeader with the two modes taken for each other.
withHeaderSwappingModes(p, key, value, options) ==
    LET canonicalKey == IF ~options.isKeyCanonicalized
                        THEN CanonicalMIMEHeaderKey(key) ELSE key
    IN  IF ~options.doesAddValueToEnd
        THEN Ok([p EXCEPT !.headers = Put(@, canonicalKey,
                                          Append(Get(@, canonicalKey), value))])
        ELSE Ok([p EXCEPT !.headers = Put(@, canonicalKey, << value >>)])

\* withHeader storing the value under the key as the caller wrote it.
withHeaderKeepingKey(p, key, value, options) ==
    IF options.doesAddValueToEnd
    THEN Ok([p EXCEPT !.headers = Put(@, key, Append(Get(@, key), value))])
    ELSE Ok([p EXCEPT !.headers = Put(@, key, << value >>)])

withHeader(p, key, value, options) ==
    LET canonicalKey == IF ~options.isKeyCanonicalized
                        THEN CanonicalMIMEHeaderKey(key) ELSE key
    IN  IF options.doesAddValueToEnd
        THEN Ok([p EXCEPT !.headers = Put(@, canonicalKey,
                                          Append(Get(@, canonicalKey), value))])
        ELSE Ok([p EXCEPT !.headers = Put(@, canonicalKey, << value >>)])

WithHeader(p, key, value, appendMode) ==
    withHeader(p, key, value, withHeaderOptions(FALSE, optionalBool(appendMode)))

WithContentType(p, value, appendMode) ==
    withHeader(p, HeaderContentType, value,
               withHeaderOptions(TRUE, optionalBool(appendMode)))

WithAccept(p, value, appendMode) ==
    withHeader(p, HeaderAccept, value, withHeaderOptions(TRUE, optionalBool(appendMode)))

WithAuth(p, value, appendMode) ==
    withHeader(p, HeaderAuthorization, value,
               withHeaderOptions(TRUE, optionalBool(appendMode)))

\* ------------------------------------------------------- multipart builder

\* WithMultipartForm: a builder whose writer writes to its empty buffer.
NewMultipartFormBuilder == [buf |-> << >>, errs |-> << >>, closed |-> FALSE]

\* A content source handed to an add operation: what it holds, whether
\* reading it fails, and whether it is an io.Closer.
Reader(content, fails) == [content |-> content, fails |-> fails, closer |-> FALSE]

\* A content source that is an io.Closer too, such as an *os.File.
ReadCloser(content, fails) == [content |-> content, fails |-> fails, closer |-> TRUE]

\* The deferred closer.Close() of an add operation: the closes it performs.
deferClose(content) == IF content.closer THEN 1 ELSE 0

\* strings.NewReader(content)
NewReader(content) == Reader(content, FALSE)

\* A section of the body: its header and what was copied into it.
Section(kind, fieldName, fileName, contentType) ==
    [kind |-> kind, fieldName |-> fieldName, fileName |-> fileName,
     contentType |-> contentType, content |-> "", complete |-> FALSE]

\* errors.Join(errs...)
RECURSIVE JoinAll(_)
JoinAll(errs) == IF errs = << >> THEN NoError ELSE Join(Head(errs), JoinAll(Tail(errs)))

\* MultipartFormBuilder.joinErrors
joinErrors(b, errs) == [b EXCEPT !.errs = @ \o errs]

\* mw.CreatePart and its shortcuts: the header of a new section goes to the
\* buffer, which takes every write.
CreatePart(b, section) ==
    [b |-> [b EXCEPT !.buf = Append(@, section)], err |-> NoError]

\* MultipartFormBuilder.writePart: io.Copy into the section created last.
writePart(b, r) ==
    IF r.fails
    THEN joinErrors(b, << NewError("copy", Len(b.buf)) >>)
    ELSE [b EXCEPT !.buf[Len(b.buf)].content = r.content,
                   !.buf[Len(b.buf)].complete = TRUE]

\* AddString with a section of the same field name replaced by the new one.
AddStringReplacing(b, fieldName, content) ==
    LET kept == SelectSeq(b.buf, LAMBDA sec : sec.fieldName # fieldName)
        w == CreatePart([b EXCEPT !.buf = kept], Section("field", fieldName, "", ""))
    IN  IF w.err # NoError
        THEN joinErrors(b, << w.err >>)
        ELSE writePart(w.b, NewReader(content))

\* MultipartFormBuilder.AddString
AddString(b, fieldName, content) ==
    LET w == CreatePart(b, Section("field", fieldName, "", ""))
    IN  IF w.err # NoError
        THEN joinErrors(b, << w.err >>)
        ELSE writePart(w.b, NewReader(content))

\* AddAsFile closing the content only once it has been copied.
AddAsFileClosingAfterCopy(b, fieldName, content, fileName) ==
    LET w == CreatePart(b, Section("file", fieldName, fileName,
                                   "application/octet-stream"))
    IN  IF w.err # NoError
        THEN [b |-> joinErrors(b, << w.err >>), closes |-> 0]
        ELSE [b |-> writePart(w.b, content),
              closes |-> IF content.fails THEN 0 ELSE deferClose(content)]

\* MultipartFormBuilder.AddAsFile: the builder it leaves and the closes of the
\* content it performed before it returned.
AddAsFile(b, fieldName, content, fileName) ==
    LET w == CreatePart(b, Section("file", fieldName, fileName,
                                   "application/octet-stream"))
    IN  IF w.err # NoError
        THEN [b |-> joinErrors(b, << w.err >>), closes |-> deferClose(content)]
        ELSE [b |-> writePart(w.b, content), closes |-> deferClose(content)]

\* MultipartFormBuilder.AddFile; file: the reader of the file and its name.
AddFile(b, fieldName, file) == AddAsFile(b, fieldName, file.reader, file.name)

\* MultipartFormBuilder.AddAsFileWithType
AddAsFileWithType(b, fieldName, content, fileName, contentType) ==
    LET w == CreatePart(b, Section("file", fieldName, fileName, contentType))
    IN  IF w.err # NoError
        THEN [b |-> joinErrors(b, << w.err >>), closes |-> deferClose(content)]
        ELSE [b |-> writePart(w.b, content), closes |-> deferClose(content)]

\* b.mw.Close(): the closing boundary goes to the buffer.
Close(b) == [b |-> [b EXCEPT !.closed = TRUE], err |-> NoError]

\* The fragment of Body returning the first recorded error only.
BodyReturningFirstError(b, p, i) ==
    IF Len(b.errs) > 0
    THEN Fail(p, b.errs[1])
    ELSE IF Close(b).err # NoError
         THEN Fail(p, Close(b).err)
         ELSE Ok([p EXCEPT !.body = [kind |-> "multipart", by |-> i],
                           !.headers = Put(@, HeaderContentType,
                                           << "multipart/form-data" >>)])

\* The fragment MultipartFormBuilder.Body returns, applied as the i-th option.
Body(b, p, i) ==
    IF Len(b.errs) > 0
    THEN Fail(p, JoinAll(b.errs))
    ELSE IF Close(b).err # NoError
         THEN Fail(p, Close(b).err)
         ELSE Ok([p EXCEPT !.body = [kind |-> "multipart", by |-> i],
                           !.headers = Put(@, HeaderContentType,
                                           << "multipart/form-data" >>)])

\* The builder behind a Body fragment of a call; flag: it recorded no error.
BuilderOf(flag, i) ==
    IF flag THEN NewMultipartFormBuilder
    ELSE joinErrors(NewMultipartFormBuilder, << NewError("multipart", i) >>)

\* The reader stored by the i-th option; a nil io.Reader stores nil.
WithBody(p, f, i) ==
    IF p.body # NoBody
    THEN Fail(p, ErrBodyAlreadyExists)
    ELSE Ok([p EXCEPT !.body = IF f.id = Nil THEN NoBody ELSE [kind |-> f.id, by |-> i]])

\* WithBytes without the guard: the reader replaces the stored one.
WithBytesOverwriting(p, f, i) == Ok([p EXCEPT !.body = [kind |-> "bytes", by |-> i]])

WithBytes(p, f, i) ==
    IF p.body # NoBody
    THEN Fail(p, ErrBodyAlreadyExists)
    ELSE Ok([p EXCEPT !.body = [kind |-> "bytes", by |-> i]])

WithTextPlain(p, f, i) ==
    IF p.body # NoBody
    THEN Fail(p, ErrBodyAlreadyExists)
    ELSE WithContentType([p EXCEPT !.body = [kind |-> "text", by |-> i]], "text/plain",
                          << >>)

\* f.flag: the encoder accepts the data.
WithJSON(p, f, i) ==
    IF p.body # NoBody
    THEN Fail(p, ErrBodyAlreadyExists)
    ELSE IF ~f.flag
         THEN Fail(p, NewError("encode", i))
         ELSE WithContentType([p EXCEPT !.body = [kind |-> "json", by |-> i]],
                              "application/json", << >>)

WithXML(p, f, i) ==
    IF p.body # NoBody
    THEN Fail(p, ErrBodyAlreadyExists)
    ELSE IF ~f.flag
         THEN Fail(p, NewError("encode", i))
         ELSE WithContentType([p EXCEPT !.body = [kind |-> "xml", by |-> i]],
                              "application/xml", << >>)

\* MultipartFormBuilder.Body; f.flag: the builder recorded no error.
MultipartBody(p, f, i) == Body(BuilderOf(f.flag, i), p, i)

WithHandlerBeforeResponse(p, f) ==
    Ok([p EXCEPT !.handler.beforeResponse = Append(@, f.id)])

WithHandlerAfterResponse(p, f) ==
    Ok([p EXCEPT !.handler.afterResponse = Append(@, f.id)])

\* OKStatuses.To; f.flag: the result target is not nil.
OKTo(p, f) ==
    Ok([p EXCEPT !.handler.okResponse =
            [set |-> TRUE, statuses |-> f.statuses, result |-> f.flag]])

\* ErrorStatuses.To; f.flag: E is an interface type the decoder may leave nil.
ErrorTo(p, f) ==
    Ok([p EXCEPT !.handler.errorResponses =
            Append(@, [kind |-> "Error", statuses |-> f.statuses, nilable |-> f.flag])])

\* Cooldown appending its classifier before it looks at the handler.
CooldownRegisteringFirst(p, f, i) ==
    LET q == [p EXCEPT !.handler.errorResponses =
                           Append(@, [kind |-> "RateLimit", statuses |-> f.statuses,
                                      nilable |-> FALSE])]
    IN  IF f.id = Nil
        THEN Fail(q, NewError("rate limit handler is nil", i))
        ELSE Ok([q EXCEPT !.handler.rateLimitResponse = f.id])

\* Cooldown registering the classifier that yields the sentinel without storing
\* the callback.
CooldownWithoutCallback(p, f, i) ==
    IF f.id = Nil
    THEN Fail(p, NewError("rate limit handler is nil", i))
    ELSE Ok([p EXCEPT !.handler.errorResponses =
                          Append(@, [kind |-> "RateLimit", statuses |-> f.statuses,
                                     nilable |-> FALSE])])

\* Cooldown keeping the callback of the first fragment.
CooldownKeepingFirst(p, f, i) ==
    IF f.id = Nil
    THEN Fail(p, NewError("rate limit handler is nil", i))
    ELSE Ok([p EXCEPT !.handler.rateLimitResponse = IF @ = Nil THEN f.id ELSE @,
                      !.handler.errorResponses =
                          Append(@, [kind |-> "RateLimit", statuses |-> f.statuses,
                                     nilable |-> FALSE])])

\* RateLimitStatuses.Cooldown
Cooldown(p, f, i) ==
    IF f.id = Nil
    THEN Fail(p, NewError("rate limit handler is nil", i))
    ELSE Ok([p EXCEPT !.handler.rateLimitResponse = f.id,
                      !.handler.errorResponses =
                          Append(@, [kind |-> "RateLimit", statuses |-> f.statuses,
                                     nilable |-> FALSE])])

\* optparams.Default storing its value over the one the caller set.
DefaultOverwriting(p, f) ==
    IF f.flag
    THEN Ok([p EXCEPT !.ctx = f.id])
    ELSE Ok([p EXCEPT !.client = f.id])

\* optparams.Default: the value is stored only where none was.
Default(p, f) ==
    IF f.flag
    THEN Ok(IF p.ctx = Nil THEN [p EXCEPT !.ctx = f.id] ELSE p)
    ELSE Ok(IF p.client = Nil THEN [p EXCEPT !.client = f.id] ELSE p)

\* One fragment applied to the descriptor: the i-th of the list.
ApplyOption(p, f, i) ==
    CASE f.op = "WithContext" -> WithContext(p, f)
      [] f.op = "WithClient" -> WithClient(p, f)
      [] f.op = "WithBody" -> WithBody(p, f, i)
      [] f.op = "WithBytes" -> WithBytes(p, f, i)
      [] f.op = "WithTextPlain" -> WithTextPlain(p, f, i)
      [] f.op = "WithJSON" -> WithJSON(p, f, i)
      [] f.op = "WithXML" -> WithXML(p, f, i)
      [] f.op = "MultipartBody" -> MultipartBody(p, f, i)
      [] f.op = "WithAccept" -> WithAccept(p, f.id, << >>)
      [] f.op = "WithHandlerBeforeResponse" -> WithHandlerBeforeResponse(p, f)
      [] f.op = "WithHandlerAfterResponse" -> WithHandlerAfterResponse(p, f)
      [] f.op = "OKTo" -> OKTo(p, f)
      [] f.op = "ErrorTo" -> ErrorTo(p, f)
      [] f.op = "Cooldown" -> Cooldown(p, f, i)
      [] f.op = "Default" -> Default(p, f)

\* The two defaults put before the caller's options instead of after them.
appendDefaultsFirst(o) ==
    << Opt("Default", "Background", {}, TRUE),
       Opt("Default", "DefaultClient", {}, FALSE) >> \o o

\* newDoParams appends the two defaults to the caller's options.
appendDefaults(o) ==
    o \o << Opt("Default", "Background", {}, TRUE),
            Opt("Default", "DefaultClient", {}, FALSE) >>

\* ------------------------------------------------------------ classifiers

\* A Decoder (jsonDecoder, xmlDecoder) reading from resp.Body: it returns io.EOF
\* when nothing is left to read and fails on a payload it rejects.
decoder(resp, i) ==
    IF resp.left = "" THEN NewError("io.EOF", i)
    ELSE IF resp.left = "rejected" THEN NewError("decode", i)
    ELSE NoError

\* The closure OKStatuses.To stores: (result, error); result is TRUE when the
\* returned value is not nil; resp: the response as the closure leaves it.
okResponse(h, resp) ==
    IF resp.status \notin h.okResponse.statuses
    THEN [result |-> FALSE, err |-> NoError, resp |-> resp]
    ELSE IF decoder(resp, 0) # NoError
         THEN [result |-> FALSE, err |-> decoder(resp, 0), resp |-> [resp EXCEPT !.left = ""]]
         ELSE [result |-> h.okResponse.result, err |-> NoError, resp |-> [resp EXCEPT !.left = ""]]

\* handler.matchOK taking status 200 for a success when no success classifier
\* is configured.
matchOKByDefault(h, resp) ==
    IF ~h.okResponse.set
    THEN [match |-> resp.status = StatusOK, err |-> NoError, evaluated |-> << >>,
          resp |-> resp]
    ELSE LET r == okResponse(h, resp)
         IN  IF r.result \/ r.err # NoError
             THEN [match |-> TRUE, err |-> r.err, evaluated |-> << 0 >>,
                   resp |-> r.resp]
             ELSE [match |-> FALSE, err |-> NoError, evaluated |-> << 0 >>,
                   resp |-> r.resp]

\* handler.matchOK telling a match by the status set alone.
matchOKByStatus(h, resp) ==
    IF ~h.okResponse.set
    THEN [match |-> FALSE, err |-> NoError, evaluated |-> << >>, resp |-> resp]
    ELSE LET r == okResponse(h, resp)
         IN  IF resp.status \in h.okResponse.statuses
             THEN [match |-> TRUE, err |-> r.err, evaluated |-> << 0 >>,
                   resp |-> r.resp]
             ELSE [match |-> FALSE, err |-> NoError, evaluated |-> << 0 >>,
                   resp |-> r.resp]

\* handler.matchOK; evaluated: the success closure was called.
matchOK(h, resp) ==
    IF ~h.okResponse.set
    THEN [match |-> FALSE, err |-> NoError, evaluated |-> << >>, resp |-> resp]
    ELSE LET r == okResponse(h, resp)
         IN  IF r.result \/ r.err # NoError
             THEN [match |-> TRUE, err |-> r.err, evaluated |-> << 0 >>,
                   resp |-> r.resp]
             ELSE [match |-> FALSE, err |-> NoError, evaluated |-> << 0 >>,
                   resp |-> r.resp]

\* The closure ErrorStatuses.To or RateLimitStatuses.Cooldown stores as the
\* i-th error classifier; resp: the response as the closure leaves it.
errorResponse(c, resp, i) ==
    IF resp.status \notin c.statuses
    THEN [err |-> NoError, resp |-> resp]
    ELSE IF c.kind = "RateLimit"
         THEN [err |-> errRateLimit, resp |-> resp]
         ELSE IF decoder(resp, i) # NoError
              THEN [err |-> decoder(resp, i), resp |-> [resp EXCEPT !.left = ""]]
              ELSE [err |-> IF c.nilable THEN NoError ELSE NewError("classified", i),
                    resp |-> [resp EXCEPT !.left = ""]]

\* handler.matchError from the i-th classifier on; evaluated: the classifiers
\* called, in the order of the calls.
RECURSIVE matchErrorFrom(_, _, _)
matchErrorFrom(h, resp, i) ==
    IF i > Len(h.errorResponses)
    THEN [err |-> NoError, evaluated |-> << >>, resp |-> resp]
    ELSE LET r == errorResponse(h.errorResponses[i], resp, i)
         IN  IF r.err # NoError
             THEN [err |-> r.err, evaluated |-> << i >>, resp |-> r.resp]
             ELSE LET rest == matchErrorFrom(h, r.resp, i + 1)
                  IN  [err |-> rest.err, evaluated |-> << i >> \o rest.evaluated,
                       resp |-> rest.resp]

matchError(h, resp) == matchErrorFrom(h, resp, 1)

\* errors.Is(err, errRateLimit)
IsRateLimit(err) == Has(err, "errRateLimit")

\* body.(io.Closer)
IsCloser(body) == body.kind = "closer"

\* The cooldown handlers a caller writes.
Handlers == {"h1", "h2"}

\* NewRateLimitHandlerBeforeDone(handler): the callback that wraps handler.
NewRateLimitHandlerBeforeDone(handler) == "BeforeDone(" \o handler \o ")"

\* The callback was built by NewRateLimitHandlerBeforeDone.
IsBeforeDone(callback) ==
    \E h \in Handlers : callback = NewRateLimitHandlerBeforeDone(h)

\* The handler the callback ends up calling.
Wrapped(callback) ==
    IF IsBeforeDone(callback)
    THEN CHOOSE h \in Handlers : callback = NewRateLimitHandlerBeforeDone(h)
    ELSE callback

\* ctx.Err() of a cancelled context.
ctxErr == NewError("ctx.Err", 0)

\* What a cooldown handler written by the caller may return.
HandlerResults == { NoError, NewError("cooldown", 0) }

\* The wrapping callback calling the handler without looking at ctx.Done().
callRateLimitHandlerIgnoringDone(callback, done) ==
    { [err |-> e, handled |-> << [name |-> Wrapped(callback), err |-> e] >>] :
        e \in HandlerResults }

\* A call of the cooldown callback; done: ctx.Done() is closed. err: what the
\* callback returns; handled: the call of the caller's handler, with its result.
callRateLimitHandler(callback, done) ==
    IF IsBeforeDone(callback) /\ done
    THEN { [err |-> ctxErr, handled |-> << >>] }
    ELSE { [err |-> e, handled |-> << [name |-> Wrapped(callback), err |-> e] >>] :
             e \in HandlerResults }

\* The unhandled-response error built without the body that was read.
UnhandledResponseErrorNoBody(resp) ==
    << [kind |-> "UnhandledResponseError", src |-> 0, status |-> resp.status,
        header |-> resp.header, body |-> ""] >>

\* newUnhandledResponse once io.ReadAll has returned what was left of the body.
UnhandledResponseError(resp) ==
    << [kind |-> "UnhandledResponseError", src |-> 0, status |-> resp.status,
        header |-> resp.header, body |-> resp.left] >>

\* ---------------------------------------------------------------- URL builder

\* A string is the sequence of its characters.
Sep == "/"

\* strings.TrimLeft(s, "/")
RECURSIVE TrimLeft(_)
TrimLeft(s) == IF s # << >> /\ Head(s) = Sep THEN TrimLeft(Tail(s)) ELSE s

\* strings.TrimRight(s, "/")
RECURSIVE TrimRight(_)
TrimRight(s) ==
    IF s # << >> /\ s[Len(s)] = Sep THEN TrimRight(SubSeq(s, 1, Len(s) - 1)) ELSE s

\* strings.Trim(s, "/")
Trim(s) == TrimRight(TrimLeft(s))

\* The zero urlBuilder of a new descriptor.
NewURLBuilder == [length |-> 0, paths |-> << >>, queries |-> << >>]

\* A value handed to WithQuery: nil, a value the encoder refuses, or a record
\* with its encoding.
NilData == [kind |-> Nil, encoded |-> << >>]

InvalidData == [kind |-> "invalid", encoded |-> << >>]

Encodable(q) == [kind |-> "struct", encoded |-> q]

\* querypkg.Values(data) followed by values.Encode().
Values(data) ==
    IF data.kind = "invalid"
    THEN [query |-> << >>, err |-> NewError("query", 0)]
    ELSE [query |-> data.encoded, err |-> NoError]

\* appendPaths with the segments trimmed on the left only.
RECURSIVE appendPathsTrimmingLeft(_, _)
appendPathsTrimmingLeft(u, paths) ==
    IF paths = << >>
    THEN u
    ELSE LET trimmedPath == TrimLeft(Head(paths))
         IN  appendPathsTrimmingLeft(
                 [u EXCEPT !.length = @ + 1 + Len(trimmedPath),
                           !.paths = Append(@, trimmedPath)],
                 Tail(paths))

\* urlBuilder.appendPaths: every segment trimmed of separators and stored.
RECURSIVE appendPaths(_, _)
appendPaths(u, paths) ==
    IF paths = << >>
    THEN u
    ELSE LET trimmedPath == Trim(Head(paths))
         IN  appendPaths([u EXCEPT !.length = @ + 1 + Len(trimmedPath),
                                   !.paths = Append(@, trimmedPath)],
                         Tail(paths))

\* appendQuery writing the fragment where it is appended, among the segments.
appendQueryInPlace(u, data) ==
    IF data.kind = Nil
    THEN [u |-> u, err |-> NoError]
    ELSE LET v == Values(data)
         IN  IF v.err # NoError
             THEN [u |-> u, err |-> v.err]
             ELSE [u |-> [u EXCEPT !.length = @ + 1 + Len(v.query),
                                   !.paths = Append(@, << "?" >> \o v.query)],
                   err |-> NoError]

\* urlBuilder.appendQuery: nil adds nothing, a refused value is an error, any
\* other value adds its encoding.
appendQuery(u, data) ==
    IF data.kind = Nil
    THEN [u |-> u, err |-> NoError]
    ELSE LET v == Values(data)
         IN  IF v.err # NoError
             THEN [u |-> u, err |-> v.err]
             ELSE [u |-> [u EXCEPT !.length = @ + 1 + Len(v.query),
                                   !.queries = Append(@, v.query)],
                   err |-> NoError]

\* The loop of build over the stored segments.
RECURSIVE writePaths(_)
writePaths(paths) ==
    IF paths = << >> THEN << >>
    ELSE << Sep >> \o Head(paths) \o writePaths(Tail(paths))

\* The loop of build over the fragments after the first.
RECURSIVE writeQueries(_)
writeQueries(queries) ==
    IF queries = << >> THEN << >>
    ELSE << "&" >> \o Head(queries) \o writeQueries(Tail(queries))

\* The loop of build with every fragment introduced by '&', the first too.
writeQueriesFromFirst(queries) == << "?" >> \o writeQueries(queries)

\* '?', the first fragment, then the others each after '&'.
writeQuery(queries) ==
    << "?" >> \o Head(queries) \o writeQueries(Tail(queries))

\* build with the base written as it is given.
buildKeepingBase(u, base) ==
    LET written == base \o writePaths(u.paths)
    IN  IF Len(u.queries) = 0 THEN written ELSE written \o writeQuery(u.queries)

\* urlBuilder.build
build(u, base) ==
    LET written == TrimRight(base) \o writePaths(u.paths)
    IN  IF Len(u.queries) = 0 THEN written ELSE written \o writeQuery(u.queries)

\* ------------------------------------------------------------------ state

VARIABLES
    opts,       \* the options handed to Do
    pc,         \* where the call is
    idx,        \* the option newDoParams applies next
    params,     \* the descriptor
    resp,       \* the response of the current attempt
    retErr,     \* the error do, and then Do, returns
    tryAgain,   \* do asks for another attempt
    sends,      \* transport sends so far
    opened,     \* response bodies received so far
    closed,     \* response body closes so far
    cooldowns,  \* cooldown callbacks invoked so far
    beforeLog,  \* pre-send hooks invoked in this attempt
    afterLog,   \* post-receive hooks invoked in this attempt
    evalLog,    \* classifiers called on this response: 0 success, i the i-th error one
    outcome,    \* the exit the current attempt took
    urlBuilder, \* the urlBuilder of the descriptor
    url,        \* the url of Do: the base, then what build returns
    urlArgs,    \* the base, the segments and the query values handed over so far,
                \* and whether a segment was appended after a query value
    cancelled,  \* the context the caller built (ctx1) is cancelled
    handled,    \* the calls of the caller's cooldown handlers, with their results
    builder,    \* the multipart builder of the caller
    form,       \* the add operations called and the descriptor Body is applied to
    closeLog,   \* the result of every close of a response body, in order
    req,        \* the request prepareRequest built for the current attempt
    reqLog,     \* the requests handed to the transport, in order
    bodyRead,   \* the transport has read the reader stored in params.body
    shared,     \* calls of Do that were passed one option slice
    hdr         \* the header fragments applied and the header map they leave

\* The variables of the URL builder.
urlVars == << urlBuilder, url, urlArgs >>

\* The variables of the multipart builder.
formVars == << builder, form >>

\* The variables a run of Do leaves alone.
pureVars == << urlVars, formVars, shared, hdr >>

vars == << opts, pc, idx, params, resp, retErr, tryAgain, sends, opened, closed,
           cooldowns, beforeLog, afterLog, evalLog, outcome, urlBuilder, url,
           urlArgs, cancelled, handled, builder, form, closeLog, req, reqLog,
           bodyRead, shared, hdr >>

\* No call of Do shares an option slice.
NoCalls ==
    [spare |-> FALSE, n |-> 0, backing |-> << >>, call |-> << >>]

\* No header fragment applied to the new descriptor.
NoFragments == [params |-> NewParams, log |-> << >>]

SeqsUpTo(S, n) == UNION { [1..k -> S] : k \in 0..n }

\* The fragments of the calls that exercise the handler chain.
RunOptions ==
    { Opt("OKTo", "", {StatusOK}, TRUE),
      Opt("OKTo", "", {StatusOK}, FALSE),
      Opt("ErrorTo", "", {404}, FALSE),
      Opt("ErrorTo", "", {StatusOK, 404, 429}, FALSE),
      Opt("ErrorTo", "", {404, 429}, TRUE),
      Opt("Cooldown", "h1", {429}, FALSE),
      Opt("Cooldown", "h2", {404}, FALSE),
      Opt("WithHandlerBeforeResponse", "b1", {}, FALSE),
      Opt("WithHandlerAfterResponse", "a1", {}, FALSE),
      Opt("Cooldown", Nil, {429}, FALSE),
      Opt("WithContext", "ctx1", {}, FALSE) }

\* No add operation called yet, Body not applied yet to the descriptor p.
NewForm(p) ==
    [calls |-> << >>, before |-> p, params |-> p, err |-> NoError, applied |-> FALSE,
     content |-> << >>]

InitWith(optionLists) ==
    /\ opts \in optionLists
    /\ pc = "newDoParams"
    /\ idx = 1
    /\ params = NewParams
    /\ resp = NoResponse
    /\ retErr = NoError
    /\ tryAgain = FALSE
    /\ sends = 0
    /\ opened = 0
    /\ closed = 0
    /\ cooldowns = 0
    /\ beforeLog = << >>
    /\ afterLog = << >>
    /\ evalLog = << >>
    /\ outcome = ""
    /\ cancelled = FALSE
    /\ handled = << >>
    /\ closeLog = << >>
    /\ req = NoRequest
    /\ reqLog = << >>
    /\ bodyRead = FALSE
    /\ shared = NoCalls
    /\ hdr = NoFragments
    /\ urlBuilder = NewURLBuilder
    /\ url = [text |-> << >>, state |-> "options"]
    /\ urlArgs = [base |-> << >>, paths |-> << >>, data |-> << >>, queryFirst |-> FALSE]
    /\ builder = NewMultipartFormBuilder
    /\ form = NewForm(NewParams)

Init == InitWith(SeqsUpTo(RunOptions, MaxOpts))

\* The fragments of the calls that exercise the configuration of the descriptor.
ConfigOptions ==
    { Opt("WithContext", "ctx1", {}, FALSE),
      Opt("WithContext", Nil, {}, FALSE),
      Opt("WithClient", "client1", {}, FALSE),
      Opt("WithClient", Nil, {}, FALSE),
      Opt("WithBody", "reader", {}, FALSE),
      Opt("WithBody", "closer", {}, FALSE),
      Opt("WithBody", Nil, {}, FALSE),
      Opt("WithBytes", "", {}, FALSE),
      Opt("WithTextPlain", "", {}, FALSE),
      Opt("WithJSON", "", {}, TRUE),
      Opt("WithJSON", "", {}, FALSE),
      Opt("WithXML", "", {}, TRUE),
      Opt("WithXML", "", {}, FALSE),
      Opt("MultipartBody", "", {}, TRUE),
      Opt("MultipartBody", "", {}, FALSE),
      Opt("Cooldown", "h1", {429}, FALSE),
      Opt("Cooldown", Nil, {429}, FALSE),
      Opt("OKTo", "", {StatusOK}, TRUE) }

InitConfig == InitWith(SeqsUpTo(ConfigOptions, MaxOpts))

\* ---------------------------------------------------------------- actions

\* do returns before a response exists: Do returns the error.
Return(err, exit) ==
    /\ pc' = "done"
    /\ retErr' = errorWrapper(err)
    /\ outcome' = exit

\* do asking for another attempt with the close of the body left for later.
ReturnClosingLater(again, err, exit) ==
    /\ pc' = IF again THEN "prepareRequest" ELSE "closeBody"
    /\ tryAgain' = again
    /\ retErr' = errorWrapper(err)
    /\ outcome' = exit

\* do returns with a response: the deferred close runs first.
ReturnDeferred(again, err, exit) ==
    /\ pc' = "closeBody"
    /\ tryAgain' = again
    /\ retErr' = errorWrapper(err)
    /\ outcome' = exit

\* Apply with Do going on to the request although an option failed.
ApplyIgnoringError ==
    /\ pc = "newDoParams"
    /\ idx <= Len(appendDefaults(opts))
    /\ LET r == ApplyOption(params, appendDefaults(opts)[idx], idx)
       IN  /\ params' = r.params
           /\ IF r.err = NoError
              THEN /\ idx' = idx + 1
                   /\ UNCHANGED << pc, retErr, outcome >>
              ELSE /\ pc' = "prepareRequest"
                   /\ retErr' = r.err
                   /\ outcome' = "option"
                   /\ UNCHANGED idx
    /\ UNCHANGED << pureVars, cancelled, handled, closeLog, req, reqLog, bodyRead >>
    /\ UNCHANGED << opts, resp, tryAgain, sends, opened, closed, cooldowns,
                    beforeLog, afterLog, evalLog >>

\* optparams.Apply inside newDoParams: the next option; Do returns its error.
Apply ==
    /\ pc = "newDoParams"
    /\ idx <= Len(appendDefaults(opts))
    /\ LET r == ApplyOption(params, appendDefaults(opts)[idx], idx)
       IN  /\ params' = r.params
           /\ IF r.err = NoError
              THEN /\ idx' = idx + 1
                   /\ UNCHANGED << pc, retErr, outcome >>
              ELSE /\ pc' = "done"
                   /\ retErr' = r.err
                   /\ outcome' = "option"
                   /\ UNCHANGED idx
    /\ UNCHANGED << pureVars, cancelled, handled, closeLog, req, reqLog, bodyRead >>
    /\ UNCHANGED << opts, resp, tryAgain, sends, opened, closed, cooldowns,
                    beforeLog, afterLog, evalLog >>

\* newDoParams without the cross-field validation.
newDoParamsUnvalidated ==
    /\ pc = "newDoParams"
    /\ idx > Len(appendDefaults(opts))
    /\ pc' = "prepareRequest"
    /\ url' = [text |-> build(urlBuilder, url.text), state |-> "built"]
    /\ UNCHANGED << urlBuilder, urlArgs, formVars, shared, hdr >>
    /\ UNCHANGED << cancelled, handled, closeLog, req, reqLog, bodyRead >>
    /\ UNCHANGED << opts, idx, params, resp, retErr, tryAgain, sends, opened, closed,
                    cooldowns, beforeLog, afterLog, evalLog, outcome >>

\* The cross-field validation that ends newDoParams; Do returns its error, or
\* builds the URL of the call and enters its loop.
newDoParams ==
    /\ pc = "newDoParams"
    /\ idx > Len(appendDefaults(opts))
    /\ IF /\ params.handler.rateLimitResponse # Nil
          /\ params.body # NoBody
          /\ IsCloser(params.body)
       THEN /\ pc' = "done"
            /\ retErr' = NewError("validation", 0)
            /\ outcome' = "validation"
            /\ UNCHANGED url
       ELSE /\ pc' = "prepareRequest"
            /\ url' = [text |-> build(urlBuilder, url.text), state |-> "built"]
            /\ UNCHANGED << retErr, outcome >>
    /\ UNCHANGED << urlBuilder, urlArgs, formVars, shared, hdr >>
    /\ UNCHANGED << cancelled, handled, closeLog, req, reqLog, bodyRead >>
    /\ UNCHANGED << opts, idx, params, resp, tryAgain, sends, opened, closed,
                    cooldowns, beforeLog, afterLog, evalLog >>

\* prepareRequest handing out the header lists of the request of the attempt
\* before, as a request that shares its header map with the descriptor would.
prepareRequestSharingHeaders ==
    /\ pc = "prepareRequest"
    /\ IF params.ctx = Nil
       THEN Return(NewError("NewRequest", 0), "prepareRequest")
       ELSE /\ pc' = "applyBefore"
            /\ UNCHANGED << retErr, outcome >>
    /\ req' = IF params.ctx = Nil THEN NoRequest
              ELSE NewRequest(IF req = NoRequest THEN params.headers ELSE req.headers,
                              params.body, bodyRead)
    /\ tryAgain' = FALSE
    /\ resp' = NoResponse
    /\ beforeLog' = << >>
    /\ afterLog' = << >>
    /\ evalLog' = << >>
    /\ UNCHANGED << pureVars, cancelled, handled, closeLog, reqLog, bodyRead >>
    /\ UNCHANGED << opts, idx, params, sends, opened, closed, cooldowns >>

\* prepareRequest: http.NewRequestWithContext refuses a nil context.
prepareRequest ==
    /\ pc = "prepareRequest"
    /\ IF params.ctx = Nil
       THEN Return(NewError("NewRequest", 0), "prepareRequest")
       ELSE /\ pc' = "applyBefore"
            /\ UNCHANGED << retErr, outcome >>
    /\ req' = IF params.ctx = Nil THEN NoRequest
              ELSE NewRequest(params.headers, params.body, bodyRead)
    /\ tryAgain' = FALSE
    /\ resp' = NoResponse
    /\ beforeLog' = << >>
    /\ afterLog' = << >>
    /\ evalLog' = << >>
    /\ UNCHANGED << pureVars, cancelled, handled, closeLog, reqLog, bodyRead >>
    /\ UNCHANGED << opts, idx, params, sends, opened, closed, cooldowns >>

\* A pre-send hook called on the request: the hook b2 adds the value "hook" to
\* the Accept header of the request it is given, the others leave the request
\* alone.
beforeHook(id, r) ==
    IF id = "b2"
    THEN [r EXCEPT !.headers = Put(@, HeaderAccept,
                                   Append(Get(@, HeaderAccept), "hook"))]
    ELSE r

\* The hooks of the list called one after the other on the same request.
RECURSIVE callBefore(_, _)
callBefore(hooks, r) ==
    IF hooks = << >> THEN r
    ELSE callBefore(Tail(hooks), beforeHook(Head(hooks), r))

\* applyBefore going through every hook and returning the first error.
applyBeforeRunningAll ==
    /\ pc = "applyBefore"
    /\ beforeLog' = params.handler.beforeResponse
    /\ req' = callBefore(params.handler.beforeResponse, req)
    /\ \/ /\ pc' = "send"
          /\ UNCHANGED << retErr, outcome >>
       \/ \E k \in 1..Len(params.handler.beforeResponse) :
            Return(NewError("before", k), "applyBefore")
    /\ UNCHANGED << pureVars, cancelled, handled, closeLog, reqLog, bodyRead >>
    /\ UNCHANGED << opts, idx, params, resp, tryAgain, sends, opened, closed,
                    cooldowns, afterLog, evalLog >>

\* handler.applyBefore: the hooks in order, up to the first that fails.
applyBefore ==
    /\ pc = "applyBefore"
    /\ \/ /\ beforeLog' = params.handler.beforeResponse
          /\ pc' = "send"
          /\ UNCHANGED << retErr, outcome >>
       \/ \E k \in 1..Len(params.handler.beforeResponse) :
            /\ beforeLog' = SubSeq(params.handler.beforeResponse, 1, k)
            /\ Return(NewError("before", k), "applyBefore")
    /\ req' = callBefore(beforeLog', req)
    /\ UNCHANGED << pureVars, cancelled, handled, closeLog, reqLog, bodyRead >>
    /\ UNCHANGED << opts, idx, params, resp, tryAgain, sends, opened, closed,
                    cooldowns, afterLog, evalLog >>

\* params.client.Do(req) with the error of the transport returned like an error
\* of the handling of a response: through the deferred close.
clientDoClosingOnError ==
    /\ pc = "send"
    /\ sends < MaxAttempts
    /\ sends' = sends + 1
    /\ reqLog' = Append(reqLog, req)
    /\ bodyRead' = (bodyRead \/ req.body # "none")
    /\ \/ /\ ReturnDeferred(FALSE, NewError("transport", 0), "transport")
          /\ UNCHANGED << resp, opened >>
       \/ \E r \in Responses :
            /\ resp' = r
            /\ opened' = opened + 1
            /\ pc' = "applyAfter"
            /\ UNCHANGED << retErr, outcome, tryAgain >>
    /\ UNCHANGED << pureVars, cancelled, handled, closeLog, req >>
    /\ UNCHANGED << opts, idx, params, closed, cooldowns, beforeLog,
                    afterLog, evalLog >>

\* params.client.Do(req): an error, or a response with an open body.
clientDo ==
    /\ pc = "send"
    /\ sends < MaxAttempts
    /\ sends' = sends + 1
    /\ reqLog' = Append(reqLog, req)
    /\ bodyRead' = (bodyRead \/ req.body # "none")
    /\ \/ /\ Return(NewError("transport", 0), "transport")
          /\ UNCHANGED << resp, opened >>
       \/ \E r \in Responses :
            /\ resp' = r
            /\ opened' = opened + 1
            /\ pc' = "applyAfter"
            /\ UNCHANGED << retErr, outcome >>
    /\ UNCHANGED << pureVars, cancelled, handled, closeLog, req >>
    /\ UNCHANGED << opts, idx, params, tryAgain, closed, cooldowns, beforeLog,
                    afterLog, evalLog >>

\* applyAfter going through every hook and returning the first error.
applyAfterRunningAll ==
    /\ pc = "applyAfter"
    /\ afterLog' = params.handler.afterResponse
    /\ \/ /\ pc' = "matchOK"
          /\ UNCHANGED << retErr, tryAgain, outcome >>
       \/ \E k \in 1..Len(params.handler.afterResponse) :
            ReturnDeferred(FALSE, NewError("after", k), "applyAfter")
    /\ UNCHANGED << pureVars, cancelled, handled, closeLog, req, reqLog, bodyRead >>
    /\ UNCHANGED << opts, idx, params, resp, sends, opened, closed, cooldowns,
                    beforeLog, evalLog >>

\* handler.applyAfter: the hooks in order, up to the first that fails.
applyAfter ==
    /\ pc = "applyAfter"
    /\ \/ /\ afterLog' = params.handler.afterResponse
          /\ pc' = "matchOK"
          /\ UNCHANGED << retErr, tryAgain, outcome >>
       \/ \E k \in 1..Len(params.handler.afterResponse) :
            /\ afterLog' = SubSeq(params.handler.afterResponse, 1, k)
            /\ ReturnDeferred(FALSE, NewError("after", k), "applyAfter")
    /\ UNCHANGED << pureVars, cancelled, handled, closeLog, req, reqLog, bodyRead >>
    /\ UNCHANGED << opts, idx, params, resp, sends, opened, closed, cooldowns,
                    beforeLog, evalLog >>

\* The success classifier: on a match do returns the extractor's error or nil.
MatchOK ==
    /\ pc = "matchOK"
    /\ LET m == matchOK(params.handler, resp)
       IN  /\ evalLog' = evalLog \o m.evaluated
           /\ resp' = m.resp
           /\ IF m.match
              THEN ReturnDeferred(FALSE, m.err, "matchOK")
              ELSE /\ pc' = "matchError"
                   /\ UNCHANGED << retErr, tryAgain, outcome >>
    /\ UNCHANGED << pureVars, cancelled, handled, closeLog, req, reqLog, bodyRead >>
    /\ UNCHANGED << opts, idx, params, sends, opened, closed, cooldowns,
                    beforeLog, afterLog >>

\* The error classifiers with another attempt asked for after any error.
MatchErrorRetryingClassified ==
    /\ pc = "matchError"
    /\ LET m == matchError(params.handler, resp)
       IN  /\ evalLog' = evalLog \o m.evaluated
           /\ resp' = m.resp
           /\ IF m.err = NoError
              THEN /\ pc' = "newUnhandledResponse"
                   /\ UNCHANGED << retErr, tryAgain, outcome >>
              ELSE IF IsRateLimit(m.err) /\ params.handler.rateLimitResponse # Nil
                   THEN /\ pc' = "rateLimitResponse"
                        /\ UNCHANGED << retErr, tryAgain, outcome >>
                   ELSE ReturnDeferred(TRUE, NoError, "matchError")
    /\ UNCHANGED << pureVars, cancelled, handled, closeLog, req, reqLog, bodyRead >>
    /\ UNCHANGED << opts, idx, params, sends, opened, closed, cooldowns,
                    beforeLog, afterLog >>

\* The error classifiers: the first error decides; the sentinel with a
\* registered callback leads to the cooldown, no error to the unhandled response.
MatchError ==
    /\ pc = "matchError"
    /\ LET m == matchError(params.handler, resp)
       IN  /\ evalLog' = evalLog \o m.evaluated
           /\ resp' = m.resp
           /\ IF m.err = NoError
              THEN /\ pc' = "newUnhandledResponse"
                   /\ UNCHANGED << retErr, tryAgain, outcome >>
              ELSE IF IsRateLimit(m.err) /\ params.handler.rateLimitResponse # Nil
                   THEN /\ pc' = "rateLimitResponse"
                        /\ UNCHANGED << retErr, tryAgain, outcome >>
                   ELSE ReturnDeferred(FALSE, m.err, "matchError")
    /\ UNCHANGED << pureVars, cancelled, handled, closeLog, req, reqLog, bodyRead >>
    /\ UNCHANGED << opts, idx, params, sends, opened, closed, cooldowns,
                    beforeLog, afterLog >>

\* ctx.Done() is closed for the context of the call.
ctxDone == params.ctx = "ctx1" /\ cancelled

\* The calls of the caller's handler with what they were handed: the context,
\* the response, known by its status, and whether its body was still open.
Invoked(calls, ctx, r, isOpen) ==
    [k \in DOMAIN calls |->
        [name |-> calls[k].name, err |-> calls[k].err, ctx |-> ctx,
         status |-> r.status, open |-> isOpen]]

\* The cooldown callback called with a new background context instead of the
\* context of the call.
rateLimitResponseInBackground ==
    /\ pc = "rateLimitResponse"
    /\ cooldowns' = cooldowns + 1
    /\ \E r \in callRateLimitHandler(params.handler.rateLimitResponse, ctxDone) :
         /\ handled' = handled \o Invoked(r.handled, "Background", resp, opened > closed)
         /\ IF r.err = NoError
            THEN ReturnDeferred(TRUE, NoError, "retry")
            ELSE ReturnDeferred(FALSE, r.err, "cooldown")
    /\ UNCHANGED << pureVars, cancelled, closeLog, req, reqLog, bodyRead >>
    /\ UNCHANGED << opts, idx, params, resp, sends, opened, closed, beforeLog,
                    afterLog, evalLog >>

\* The cooldown callback with its error returned before the body is closed.
rateLimitResponseLeaking ==
    /\ pc = "rateLimitResponse"
    /\ cooldowns' = cooldowns + 1
    /\ \E r \in callRateLimitHandler(params.handler.rateLimitResponse, ctxDone) :
         /\ handled' = handled \o Invoked(r.handled, params.ctx, resp, opened > closed)
         /\ IF r.err = NoError
            THEN ReturnDeferred(TRUE, NoError, "retry")
            ELSE /\ Return(r.err, "cooldown")
                 /\ UNCHANGED tryAgain
    /\ UNCHANGED << pureVars, cancelled, closeLog, req, reqLog, bodyRead >>
    /\ UNCHANGED << opts, idx, params, resp, sends, opened, closed, beforeLog,
                    afterLog, evalLog >>

\* The cooldown callback with its error dropped and another attempt asked for.
rateLimitResponseRetryingOnError ==
    /\ pc = "rateLimitResponse"
    /\ cooldowns' = cooldowns + 1
    /\ \E r \in callRateLimitHandler(params.handler.rateLimitResponse, ctxDone) :
         /\ handled' = handled \o Invoked(r.handled, params.ctx, resp, opened > closed)
         /\ IF r.err = NoError
            THEN ReturnDeferred(TRUE, NoError, "retry")
            ELSE ReturnDeferred(TRUE, NoError, "cooldown")
    /\ UNCHANGED << pureVars, cancelled, closeLog, req, reqLog, bodyRead >>
    /\ UNCHANGED << opts, idx, params, resp, sends, opened, closed, beforeLog,
                    afterLog, evalLog >>

\* params.handler.rateLimitResponse(params.ctx, resp): its error ends the call,
\* its success asks for another attempt.
rateLimitResponse ==
    /\ pc = "rateLimitResponse"
    /\ cooldowns' = cooldowns + 1
    /\ \E r \in callRateLimitHandler(params.handler.rateLimitResponse, ctxDone) :
         /\ handled' = handled \o Invoked(r.handled, params.ctx, resp, opened > closed)
         /\ IF r.err = NoError
            THEN ReturnDeferred(TRUE, NoError, "retry")
            ELSE ReturnDeferred(FALSE, r.err, "cooldown")
    /\ UNCHANGED << pureVars, cancelled, closeLog, req, reqLog, bodyRead >>
    /\ UNCHANGED << opts, idx, params, resp, sends, opened, closed, beforeLog,
                    afterLog, evalLog >>

\* The caller cancels the context the call runs under.
Cancel ==
    /\ pc # "done"
    /\ params.ctx = "ctx1"
    /\ ~cancelled
    /\ cancelled' = TRUE
    /\ UNCHANGED << pureVars, handled, closeLog, req, reqLog, bodyRead >>
    /\ UNCHANGED << opts, pc, idx, params, resp, retErr, tryAgain, sends, opened,
                    closed, cooldowns, beforeLog, afterLog, evalLog, outcome >>

\* newUnhandledResponse reporting the status and the headers of the response
\* although the read of the body failed.
newUnhandledResponseAfterFailedRead ==
    /\ pc = "newUnhandledResponse"
    /\ \/ ReturnDeferred(FALSE, UnhandledResponseError(resp), "unhandled")
       \/ ReturnDeferred(FALSE, UnhandledResponseErrorNoBody(resp), "read")
    /\ resp' = [resp EXCEPT !.left = ""]
    /\ UNCHANGED << pureVars, cancelled, handled, closeLog, req, reqLog, bodyRead >>
    /\ UNCHANGED << opts, idx, params, sends, opened, closed, cooldowns,
                    beforeLog, afterLog, evalLog >>

\* newUnhandledResponse: the body read into memory, or the read error.
newUnhandledResponse ==
    /\ pc = "newUnhandledResponse"
    /\ \/ ReturnDeferred(FALSE, UnhandledResponseError(resp), "unhandled")
       \/ ReturnDeferred(FALSE, NewError("read", 0), "read")
    /\ resp' = [resp EXCEPT !.left = ""]
    /\ UNCHANGED << pureVars, cancelled, handled, closeLog, req, reqLog, bodyRead >>
    /\ UNCHANGED << opts, idx, params, sends, opened, closed, cooldowns,
                    beforeLog, afterLog, evalLog >>

\* The loop of Do giving up after the second attempt.
closeBodyCapped ==
    /\ pc = "closeBody"
    /\ closed' = closed + 1
    /\ \E closeErr \in { NoError, NewError("close", 0) } :
         LET err == Join(retErr, errorWrapper(closeErr))
         IN  /\ retErr' = err
             /\ closeLog' = Append(closeLog, closeErr)
             /\ pc' = IF err # NoError THEN "done"
                      ELSE IF tryAgain /\ sends < 2 THEN "prepareRequest" ELSE "done"
    /\ UNCHANGED << pureVars, cancelled, handled, req, reqLog, bodyRead >>
    /\ UNCHANGED << opts, idx, params, resp, tryAgain, sends, opened, cooldowns,
                    beforeLog, afterLog, evalLog, outcome >>

\* The deferred close keeping the error do already returns and reporting the
\* close error only when there is none.
closeBodyKeepingPrimary ==
    /\ pc = "closeBody"
    /\ closed' = closed + 1
    /\ \E closeErr \in { NoError, NewError("close", 0) } :
         LET err == IF retErr # NoError THEN retErr ELSE errorWrapper(closeErr)
         IN  /\ retErr' = err
             /\ closeLog' = Append(closeLog, closeErr)
             /\ pc' = IF err # NoError THEN "done"
                      ELSE IF tryAgain THEN "prepareRequest" ELSE "done"
    /\ UNCHANGED << pureVars, cancelled, handled, req, reqLog, bodyRead >>
    /\ UNCHANGED << opts, idx, params, resp, tryAgain, sends, opened, cooldowns,
                    beforeLog, afterLog, evalLog, outcome >>

\* The deferred close with the loop of Do going on to the next attempt although
\* the close failed.
closeBodyRetryingAnyway ==
    /\ pc = "closeBody"
    /\ closed' = closed + 1
    /\ \E closeErr \in { NoError, NewError("close", 0) } :
         LET err == Join(retErr, errorWrapper(closeErr))
         IN  /\ retErr' = IF tryAgain THEN NoError ELSE err
             /\ closeLog' = Append(closeLog, closeErr)
             /\ pc' = IF tryAgain THEN "prepareRequest"
                      ELSE "done"
    /\ UNCHANGED << pureVars, cancelled, handled, req, reqLog, bodyRead >>
    /\ UNCHANGED << opts, idx, params, resp, tryAgain, sends, opened, cooldowns,
                    beforeLog, afterLog, evalLog, outcome >>

\* The deferred resp.Body.Close() of do, its error joined to the returned one;
\* then the loop of Do: an error ends the call, tryAgain starts a new attempt.
closeBody ==
    /\ pc = "closeBody"
    /\ closed' = closed + 1
    /\ \E closeErr \in { NoError, NewError("close", 0) } :
         LET err == Join(retErr, errorWrapper(closeErr))
         IN  /\ retErr' = err
             /\ closeLog' = Append(closeLog, closeErr)
             /\ pc' = IF err # NoError THEN "done"
                      ELSE IF tryAgain THEN "prepareRequest" ELSE "done"
    /\ UNCHANGED << pureVars, cancelled, handled, req, reqLog, bodyRead >>
    /\ UNCHANGED << opts, idx, params, resp, tryAgain, sends, opened, cooldowns,
                    beforeLog, afterLog, evalLog, outcome >>

Next ==
    \/ Apply
    \/ newDoParams
    \/ prepareRequest
    \/ applyBefore
    \/ clientDo
    \/ applyAfter
    \/ MatchOK
    \/ MatchError
    \/ rateLimitResponse
    \/ newUnhandledResponse
    \/ closeBody
    \/ Cancel

Spec == Init /\ [][Next]_vars

SpecConfig == InitConfig /\ [][Next]_vars

\* The fragments of the calls that exercise the hooks and the cooldown.
HookOptions ==
    { Opt("WithHandlerBeforeResponse", "b1", {}, FALSE),
      Opt("WithHandlerBeforeResponse", "b2", {}, FALSE),
      Opt("WithHandlerAfterResponse", "a1", {}, FALSE),
      Opt("WithHandlerAfterResponse", "a2", {}, FALSE),
      Opt("OKTo", "", {StatusOK}, TRUE),
      Opt("ErrorTo", "", {404, 429}, FALSE),
      Opt("Cooldown", "h1", {429}, FALSE),
      Opt("Cooldown", NewRateLimitHandlerBeforeDone("h1"), {429}, FALSE),
      Opt("WithAccept", "v1", {}, FALSE),
      Opt("WithContext", "ctx1", {}, FALSE) }

InitHooks == InitWith(SeqsUpTo(HookOptions, MaxOpts))

SpecHooks == InitHooks /\ [][Next]_vars

\* ---------------------------------------------------------------- the URL of a call

\* The bases handed to Do.
Bases ==
    { << >>, << "h" >>, << "h", "/" >>, << "h", "/", "/" >>, << "h", "/", "x" >>,
      << "h", "/", "x", "/" >> }

\* The segments handed to WithURLPaths.
Segments ==
    { << >>, << "/" >>, << "/", "/" >>, << "a" >>, << "/", "/", "a", "/" >>,
      << "/", "b", "/" >>, << "a", "/", "b" >> }

\* The values handed to WithQuery.
QueryData ==
    { NilData, InvalidData, Encodable(<< >>), Encodable(<< "k" >>),
      Encodable(<< "k", "&", "l" >>), Encodable(<< "m" >>) }

InitURL ==
    /\ opts = << >>
    /\ pc = "newDoParams"
    /\ idx = 1
    /\ params = NewParams
    /\ resp = NoResponse
    /\ retErr = NoError
    /\ tryAgain = FALSE
    /\ sends = 0
    /\ opened = 0
    /\ closed = 0
    /\ cooldowns = 0
    /\ beforeLog = << >>
    /\ afterLog = << >>
    /\ evalLog = << >>
    /\ outcome = ""
    /\ cancelled = FALSE
    /\ handled = << >>
    /\ closeLog = << >>
    /\ req = NoRequest
    /\ reqLog = << >>
    /\ bodyRead = FALSE
    /\ shared = NoCalls
    /\ hdr = NoFragments
    /\ urlBuilder = NewURLBuilder
    /\ \E base \in Bases :
         /\ url = [text |-> base, state |-> "options"]
         /\ urlArgs = [base |-> base, paths |-> << >>, data |-> << >>, queryFirst |-> FALSE]
    /\ builder = NewMultipartFormBuilder
    /\ form = NewForm(NewParams)

\* The variables of a run of Do.
runVars == << opts, pc, idx, params, resp, retErr, tryAgain, sends, opened, closed,
              cooldowns, beforeLog, afterLog, evalLog, outcome, cancelled, handled,
              closeLog, req, reqLog, bodyRead >>

\* WithURLPaths(paths...) applied to the descriptor.
WithURLPaths ==
    /\ url.state = "options"
    /\ \E paths \in SeqsUpTo(Segments, MaxPaths - Len(urlArgs.paths)) :
         /\ urlBuilder' = appendPaths(urlBuilder, paths)
         /\ urlArgs' = [urlArgs EXCEPT !.paths = @ \o paths,
                                       !.queryFirst = @ \/ (paths # << >>
                                                            /\ urlArgs.data # << >>)]
    /\ UNCHANGED << url, runVars, formVars, shared, hdr >>

\* WithQuery(data) applied to the descriptor: its error ends the configuration.
WithQuery ==
    /\ url.state = "options"
    /\ Len(urlArgs.data) < MaxQueries
    /\ \E data \in QueryData :
         LET r == appendQuery(urlBuilder, data)
         IN  /\ urlBuilder' = r.u
             /\ urlArgs' = [urlArgs EXCEPT !.data = Append(@, data)]
             /\ url' = IF r.err = NoError THEN url
                       ELSE [url EXCEPT !.state = "failed"]
    /\ UNCHANGED << runVars, formVars, shared, hdr >>

\* url = params.urlBuilder.build(url) in Do.
Build ==
    /\ url.state = "options"
    /\ url' = [text |-> build(urlBuilder, url.text), state |-> "built"]
    /\ UNCHANGED << urlBuilder, urlArgs, runVars, formVars, shared, hdr >>

NextURL ==
    \/ WithURLPaths
    \/ WithQuery
    \/ Build

SpecURL == InitURL /\ [][NextURL]_vars

\* ------------------------------------------------------------------ claims

\* The error classifiers called on the current response, in the order of the calls.
ErrorEvaluated == SelectSeq(evalLog, LAMBDA i : i > 0)

\* The error classifiers whose status set contains the status of the response.
Containing == { i \in DOMAIN params.handler.errorResponses :
                  resp.status \in params.handler.errorResponses[i].statuses }

FirstContaining == CHOOSE i \in Containing : \A j \in Containing : i <= j

\* The classification of the current response is over.
Classified ==
    \/ pc \in {"rateLimitResponse", "newUnhandledResponse"}
    \/ /\ pc \in {"closeBody", "done"}
       /\ outcome \in {"matchOK", "matchError", "retry", "cooldown", "unhandled", "read"}

\* The error classifiers have been run on the current response.
ErrorClassified ==
    \/ pc \in {"rateLimitResponse", "newUnhandledResponse"}
    \/ /\ pc \in {"closeBody", "done"}
       /\ outcome \in {"matchError", "retry", "cooldown", "unhandled", "read"}

\* C1: whenever the status of the response is in the status set of the success
\* classifier, no error classifier is called on that response and the attempt
\* ends the call with the outcome of the extractor, even when the status set of
\* an error classifier holds the same code.
C1_SuccessShortCircuits ==
    (/\ params.handler.okResponse.set
     /\ resp.status \in params.handler.okResponse.statuses)
    => /\ ErrorEvaluated = << >>
       /\ pc \notin {"matchError", "rateLimitResponse", "newUnhandledResponse"}
       /\ Classified => /\ outcome = "matchOK"
                        /\ ~tryAgain
                        /\ Has(retErr, "decode") <=> resp.body = "rejected"

\* C2: when the success classifier does not match, the error classifiers are
\* called in registration order, the first whose status set contains the status
\* of the response decides the attempt (its error, or the cooldown for the
\* rate-limit classifier), and no classifier registered after it is called.
C2_FirstContainingDecides ==
    ErrorClassified =>
        IF Containing = {}
        THEN /\ ErrorEvaluated = [i \in 1..Len(params.handler.errorResponses) |-> i]
             /\ pc = "newUnhandledResponse" \/ outcome \in {"unhandled", "read"}
        ELSE /\ ErrorEvaluated = [i \in 1..FirstContaining |-> i]
             /\ IF params.handler.errorResponses[FirstContaining].kind = "RateLimit"
                THEN pc = "rateLimitResponse" \/ outcome \in {"retry", "cooldown"}
                ELSE /\ pc \in {"closeBody", "done"}
                     /\ outcome = "matchError"
                     /\ retErr # NoError
                     /\ retErr[1].kind \in {"classified", "decode"}
                     /\ retErr[1].src = FirstContaining

\* The call has ended after an attempt that received a response whose status is
\* in the status set of the success classifier, every attempt before it having
\* been rate limited with the cooldown callback returning nil, and nothing else
\* has failed: no hook, no decoder, no close of a body.
RetriedToSuccessStatus ==
    /\ pc = "done"
    /\ sends >= 1
    /\ opened = sends
    /\ params.handler.okResponse.set
    /\ resp.status \in params.handler.okResponse.statuses
    /\ resp.body = "accepted"
    /\ outcome # "applyAfter"
    /\ \A k \in DOMAIN handled : handled[k].err = NoError
    /\ \A k \in DOMAIN closeLog : closeLog[k] = NoError

\* C3: when the first k attempts get a rate-limited status with the cooldown
\* callback succeeding each time and attempt k+1 gets a success status, Do
\* returns nil, the transport has been invoked k+1 times and the cooldown
\* callback k times.
C3_RetryThenSuccess ==
    RetriedToSuccessStatus
    => /\ retErr = NoError
       /\ sends = cooldowns + 1
       /\ closed = sends

\* C4: the body of every response the transport returned is closed exactly once
\* before its attempt ends, whichever exit the attempt takes: between attempts
\* and at the end of the call every body received is closed, during the handling
\* of a response exactly that one is open, and nothing is closed twice.
C4_BodyClosedOnce ==
    /\ closed <= opened
    /\ opened <= sends
    /\ pc \in {"applyAfter", "matchOK", "matchError", "rateLimitResponse",
               "newUnhandledResponse", "closeBody"} => opened = closed + 1
    /\ pc \in {"newDoParams", "prepareRequest", "applyBefore", "send", "done"}
          => closed = opened

C4_Witness ==
    /\ pc = "done"
    /\ outcome = "cooldown"
    /\ opened = 2
    /\ closed = 2

\* The status of the response is in no status set: not the success classifier's,
\* not an error classifier's.
Unmatched ==
    /\ resp # NoResponse
    /\ resp.status \notin params.handler.okResponse.statuses
    /\ Containing = {}

\* C5 as stated: a response whose status is in no status set makes Do return an
\* unhandled-response error with the status, the headers and the payload of the
\* response, without a retry, the body closed once.
C5_Original ==
    (pc = "done" /\ Unmatched /\ outcome # "applyAfter")
    => /\ retErr # NoError
       /\ retErr[1] = [kind |-> "UnhandledResponseError", src |-> 0,
                       status |-> resp.status, header |-> resp.header,
                       body |-> resp.body]
       /\ ~tryAgain
       /\ closed = opened

\* C5, amended: a response whose status is in no status set ends the call on
\* that attempt with the body closed once; when the body is read into memory
\* without error Do returns the unhandled-response error with the status, the
\* headers and the payload of the response, and when the read fails Do returns
\* the read error and no unhandled-response error.
C5_Unhandled ==
    /\ (pc \in {"closeBody", "done"} /\ Unmatched /\ outcome # "applyAfter")
       => /\ outcome \in {"unhandled", "read"}
          /\ ~tryAgain
          /\ retErr # NoError
          /\ outcome = "unhandled"
               => retErr[1] = [kind |-> "UnhandledResponseError", src |-> 0,
                               status |-> resp.status, header |-> resp.header,
                               body |-> resp.body]
          /\ outcome = "read"
               => retErr[1].kind = "read" /\ ~Has(retErr, "UnhandledResponseError")
    /\ (pc = "done" /\ Unmatched) => closed = opened /\ closed = sends

C5_Witness ==
    /\ pc = "done"
    /\ Unmatched
    /\ outcome = "unhandled"
    /\ resp.status = 500
    /\ resp.body = "rejected"
    /\ Len(params.handler.errorResponses) > 0
    /\ params.handler.okResponse.set
    /\ closed = 1

\* The options newDoParams applies: the caller's, then the defaults.
AllOpts == appendDefaults(opts)

\* The j-th option has been invoked; it returned nil; it returned an error.
Applied(j) == idx > j \/ (idx = j /\ pc = "done" /\ outcome = "option")

Succeeded(j) == idx > j

Failed(j) == idx = j /\ pc = "done" /\ outcome = "option"

IsDirectBody(f) ==
    f.op \in {"WithBody", "WithBytes", "WithTextPlain", "WithJSON", "WithXML"}

IsNilBody(f) == f.op = "WithBody" /\ f.id = Nil

\* The option hands the descriptor a body source that is not nil.
StoresBody(f) ==
    \/ f.op \in {"WithBytes", "WithTextPlain"}
    \/ f.op = "WithBody" /\ f.id # Nil
    \/ f.op \in {"WithJSON", "WithXML", "MultipartBody"} /\ f.flag

\* C6 as stated: of any two direct body-setting fragments applied to the same
\* descriptor the second fails with ErrBodyAlreadyExists and does not store its
\* body.
C6_Original ==
    \A i, j \in DOMAIN opts :
        (i < j /\ IsDirectBody(opts[i]) /\ IsDirectBody(opts[j]) /\ Applied(j))
        => /\ Failed(j)
           /\ retErr = ErrBodyAlreadyExists
           /\ params.body # NoBody
           /\ params.body.by # j

\* C6, amended: a direct body-setting fragment applied after a direct
\* body-setting fragment that stored a body source other than nil fails with
\* ErrBodyAlreadyExists and leaves the stored body as it was; WithBody(nil) stores
\* no body, and ErrBodyAlreadyExists is returned only when a body is stored.
C6_SecondBodyFails ==
    /\ \A i, j \in DOMAIN opts :
          (/\ i < j
           /\ IsDirectBody(opts[i]) /\ ~IsNilBody(opts[i])
           /\ IsDirectBody(opts[j])
           /\ Applied(j))
          => /\ Failed(j)
             /\ retErr = ErrBodyAlreadyExists
             /\ params.body # NoBody
             /\ params.body.by < j
             /\ StoresBody(opts[params.body.by])
    /\ \A j \in DOMAIN opts :
          (Failed(j) /\ retErr = ErrBodyAlreadyExists)
          => \E i \in 1..(j - 1) : StoresBody(opts[i])

C6_Witness ==
    /\ Len(opts) = 2
    /\ opts[1].op = "WithJSON"
    /\ opts[2].op = "WithBody"
    /\ opts[2].id = "closer"
    /\ Failed(2)
    /\ retErr = ErrBodyAlreadyExists
    /\ params.body = [kind |-> "json", by |-> 1]

\* C7: the body source of the descriptor is assigned at most once, the multipart
\* finalization fragment included: a fragment that would store a body when one
\* is stored fails and the stored body stays.
C7_BodyAssignedAtMostOnce ==
    \A i, j \in DOMAIN opts :
        (i < j /\ StoresBody(opts[i]) /\ StoresBody(opts[j]) /\ Applied(j))
        => /\ Failed(j)
           /\ params.body.by = i

\* C8: when the applied fragments leave the descriptor with a cooldown callback
\* and a body source that is an io.Closer, in either order, newDoParams returns
\* the validation error and Do returns it with no pre-send hook run and no
\* request sent.
C8_CloserBodyWithCooldown ==
    (/\ pc # "newDoParams"
     /\ outcome # "option"
     /\ params.handler.rateLimitResponse # Nil
     /\ IsCloser(params.body))
    => /\ pc = "done"
       /\ outcome = "validation"
       /\ retErr = NewError("validation", 0)
       /\ sends = 0
       /\ opened = 0
       /\ beforeLog = << >>

C8_Witness ==
    /\ Len(opts) = 2
    /\ opts[1].op = "Cooldown"
    /\ opts[2].op = "WithBody"
    /\ pc = "done"
    /\ outcome = "validation"
    /\ params.handler.rateLimitResponse = "h1"
    /\ params.body = [kind |-> "closer", by |-> 2]

\* The descriptor after the first k options, and the error of the k-th.
RECURSIVE ParamsAfter(_, _)
ParamsAfter(o, k) ==
    IF k = 0 THEN NewParams ELSE ApplyOption(ParamsAfter(o, k - 1), o[k], k).params

ErrorOf(o, k) == ApplyOption(ParamsAfter(o, k - 1), o[k], k).err

\* C9: the fragments are applied in the order given; once a fragment fails no
\* later fragment is applied, the call is over with that error, and no pre-send
\* hook, transport send, post-receive hook, classifier or cooldown callback has
\* been invoked.
C9_FailFast ==
    /\ pc = "newDoParams"
       => /\ params = ParamsAfter(AllOpts, idx - 1)
          /\ \A j \in 1..(idx - 1) : ErrorOf(AllOpts, j) = NoError
    /\ outcome = "option"
       => /\ pc = "done"
          /\ idx \in DOMAIN opts
          /\ \A j \in 1..(idx - 1) : ErrorOf(AllOpts, j) = NoError
          /\ retErr = ErrorOf(AllOpts, idx)
          /\ retErr # NoError
          /\ params = ParamsAfter(AllOpts, idx - 1)
          /\ sends = 0 /\ opened = 0 /\ closed = 0 /\ cooldowns = 0
          /\ beforeLog = << >> /\ afterLog = << >> /\ evalLog = << >>

C9_Witness ==
    /\ Len(opts) = 3
    /\ opts[1].op = "WithContext" /\ opts[1].id = "ctx1"
    /\ opts[2].op = "WithJSON" /\ ~opts[2].flag
    /\ opts[3].op = "WithClient" /\ opts[3].id = "client1"
    /\ pc = "done"
    /\ idx = 2
    /\ Has(retErr, "encode")
    /\ params.ctx = "ctx1"
    /\ params.client = Nil

\* The argument of the last fragment of the kind among the caller's options;
\* nil when there is none.
LastValue(op) ==
    LET S == { j \in DOMAIN opts : opts[j].op = op }
    IN  IF S = {} THEN Nil ELSE opts[CHOOSE j \in S : \A k \in S : k <= j].id

\* newDoParams has returned a descriptor.
Configured == pc # "newDoParams" /\ outcome \notin {"option", "validation"}

\* C10: after newDoParams succeeds the context and the client of the descriptor
\* are not nil: each is the value of the last WithContext / WithClient fragment
\* when that value is not nil, and the default otherwise.
C10_Defaults ==
    Configured
    => /\ params.ctx # Nil
       /\ params.client # Nil
       /\ params.ctx = IF LastValue("WithContext") # Nil
                       THEN LastValue("WithContext") ELSE "Background"
       /\ params.client = IF LastValue("WithClient") # Nil
                          THEN LastValue("WithClient") ELSE "DefaultClient"

C10_Witness ==
    /\ Configured
    /\ Len(opts) = 3
    /\ opts[1].op = "WithContext" /\ opts[1].id = "ctx1"
    /\ opts[2].op = "WithContext" /\ opts[2].id = Nil
    /\ opts[3].op = "WithClient" /\ opts[3].id = "client1"
    /\ params.ctx = "Background"
    /\ params.client = "client1"

\* ---------------------------------------------------------------- a multipart body

\* The field names, texts, file names and content types of the add operations.
FieldNames == {"f", "g"}

Texts == {"x", "y"}

Readers ==
    { Reader("x", FALSE), Reader("y", FALSE), Reader("x", TRUE),
      ReadCloser("x", FALSE), ReadCloser("y", TRUE) }

Files == { [reader |-> ReadCloser("x", FALSE), name |-> "n"],
           [reader |-> ReadCloser("y", TRUE), name |-> "n"] }

\* The descriptors the fragment of Body finds.
FormParams ==
    { NewParams,
      [NewParams EXCEPT !.body = [kind |-> "bytes", by |-> 1],
                        !.headers = Put(@, HeaderContentType, << "text/plain" >>)] }

InitForm ==
    /\ opts = << >>
    /\ pc = "newDoParams"
    /\ idx = 1
    /\ params = NewParams
    /\ resp = NoResponse
    /\ retErr = NoError
    /\ tryAgain = FALSE
    /\ sends = 0
    /\ opened = 0
    /\ closed = 0
    /\ cooldowns = 0
    /\ beforeLog = << >>
    /\ afterLog = << >>
    /\ evalLog = << >>
    /\ outcome = ""
    /\ cancelled = FALSE
    /\ handled = << >>
    /\ closeLog = << >>
    /\ req = NoRequest
    /\ reqLog = << >>
    /\ bodyRead = FALSE
    /\ shared = NoCalls
    /\ hdr = NoFragments
    /\ urlBuilder = NewURLBuilder
    /\ url = [text |-> << >>, state |-> "options"]
    /\ urlArgs = [base |-> << >>, paths |-> << >>, data |-> << >>, queryFirst |-> FALSE]
    /\ builder = NewMultipartFormBuilder
    /\ \E p \in FormParams : form = NewForm(p)

\* An add operation is called: the builder it leaves and the record of the
\* call, with the closes of its content source.
Added(b, op, fieldName, source, closes) ==
    /\ builder' = b
    /\ form' = [form EXCEPT !.calls = Append(@, [op |-> op, fieldName |-> fieldName,
                                                 content |-> source.content,
                                                 fails |-> source.fails,
                                                 closer |-> source.closer,
                                                 closes |-> closes])]
    /\ UNCHANGED << runVars, urlVars, shared, hdr >>

\* b.AddString(fieldName, content)
FormAddString ==
    /\ ~form.applied
    /\ Len(form.calls) < MaxSections
    /\ \E fieldName \in FieldNames, content \in Texts :
         Added(AddString(builder, fieldName, content), "AddString", fieldName,
               NewReader(content), 0)

\* b.AddFile(fieldName, file)
FormAddFile ==
    /\ ~form.applied
    /\ Len(form.calls) < MaxSections
    /\ \E fieldName \in FieldNames, file \in Files :
         LET r == AddFile(builder, fieldName, file)
         IN  Added(r.b, "AddFile", fieldName, file.reader, r.closes)

\* b.AddAsFile(fieldName, content, fileName)
FormAddAsFile ==
    /\ ~form.applied
    /\ Len(form.calls) < MaxSections
    /\ \E fieldName \in FieldNames, content \in Readers :
         LET r == AddAsFile(builder, fieldName, content, "n")
         IN  Added(r.b, "AddAsFile", fieldName, content, r.closes)

\* b.AddAsFileWithType(fieldName, content, fileName, contentType)
FormAddAsFileWithType ==
    /\ ~form.applied
    /\ Len(form.calls) < MaxSections
    /\ \E fieldName \in FieldNames, content \in Readers :
         LET r == AddAsFileWithType(builder, fieldName, content, "n", "text/plain")
         IN  Added(r.b, "AddAsFileWithType", fieldName, content, r.closes)

\* The fragment b.Body() applied to the descriptor; content: the bytes the
\* body stored reads, the sections in the buffer.
FormBody ==
    /\ ~form.applied
    /\ LET r == Body(builder, form.params, 1)
       IN  /\ form' = [form EXCEPT !.params = r.params, !.err = r.err,
                                   !.applied = TRUE,
                                   !.content = IF r.err = NoError
                                               THEN Close(builder).b.buf ELSE << >>]
           /\ builder' = IF Len(builder.errs) > 0 THEN builder ELSE Close(builder).b
    /\ UNCHANGED << runVars, urlVars, shared, hdr >>

NextForm ==
    \/ FormAddString
    \/ FormAddFile
    \/ FormAddAsFile
    \/ FormAddAsFileWithType
    \/ FormBody

SpecForm == InitForm /\ [][NextForm]_vars

\* ---------------------------------------------------------------- claims on the URL

\* How often the character c occurs in the string s.
Count(c, s) == Cardinality({ i \in DOMAIN s : s[i] = c })

\* The length of the base without its trailing separators.
StrippedLen(base) ==
    CHOOSE k \in 0..Len(base) :
        /\ k = 0 \/ base[k] # Sep
        /\ \A j \in (k + 1)..Len(base) : base[j] = Sep

\* The segment has a character that is not a separator.
HasContent(seg) == \E i \in DOMAIN seg : seg[i] # Sep

\* The segment between its first and its last character that is not a separator.
Content(seg) ==
    IF ~HasContent(seg) THEN << >>
    ELSE LET inner == { i \in DOMAIN seg : seg[i] # Sep }
             first == CHOOSE i \in inner : \A j \in inner : i <= j
             last == CHOOSE i \in inner : \A j \in inner : j <= i
         IN  SubSeq(seg, first, last)

\* The fragments the query values handed over so far stand for.
RECURSIVE FragmentsOf(_)
FragmentsOf(data) ==
    IF data = << >> THEN << >>
    ELSE (IF Head(data).kind = "struct" THEN << Head(data).encoded >> ELSE << >>)
         \o FragmentsOf(Tail(data))

Fragments == FragmentsOf(urlArgs.data)

\* Where the query of the built URL starts: the first '?', or past the end.
QueryAt ==
    IF Count("?", url.text) = 0 THEN Len(url.text) + 1
    ELSE CHOOSE i \in DOMAIN url.text :
             /\ url.text[i] = "?"
             /\ \A j \in 1..(i - 1) : url.text[j] # "?"

\* The built URL between the stripped base and the query.
PathPart == SubSeq(url.text, StrippedLen(urlArgs.base) + 1, QueryAt - 1)

\* The built URL after the '?'.
QueryPart == SubSeq(url.text, QueryAt + 1, Len(url.text))

\* Each of the given segments after one separator, in order.
RECURSIVE Joined(_)
Joined(segs) ==
    IF segs = << >> THEN << >>
    ELSE << Sep >> \o Content(Head(segs)) \o Joined(Tail(segs))

\* C11: build strips every trailing '/' of the base before it appends anything:
\* the built URL starts with the base up to its last character that is not '/',
\* with no segment and no query it is exactly that, and with a segment exactly
\* one '/' stands between the stripped base and the segment.
C11_BaseStripped ==
    url.state = "built" =>
        LET n == StrippedLen(urlArgs.base)
        IN  /\ Len(url.text) >= n
            /\ SubSeq(url.text, 1, n) = SubSeq(urlArgs.base, 1, n)
            /\ (urlArgs.paths = << >> /\ Fragments = << >>) => Len(url.text) = n
            /\ urlArgs.paths # << >> =>
                 /\ url.text[n + 1] = Sep
                 /\ n > 0 => url.text[n] # Sep
                 /\ HasContent(urlArgs.paths[1]) => url.text[n + 2] # Sep

C11_Witness ==
    /\ url.state = "built"
    /\ urlArgs.base # << >>
    /\ urlArgs.base[Len(urlArgs.base)] = Sep
    /\ StrippedLen(urlArgs.base) > 0
    /\ Len(urlArgs.paths) = 1
    /\ HasContent(urlArgs.paths[1])

\* C12 as stated: for every sequence of segments the path of the built URL
\* is the segments' contents, each once, in append order, each after exactly one
\* separator, and segments that were only separators leave nothing behind.
C12_Original ==
    url.state = "built" =>
        PathPart = Joined(SelectSeq(urlArgs.paths, HasContent))

\* C12, amended: the path of the built URL is one separator and the content of
\* the segment for every segment, in append order; so segments that have content
\* appear each once, separated by exactly one separator, and a segment that is
\* empty or only separators contributes a bare separator.
C12_SegmentsJoined ==
    url.state = "built" =>
        /\ PathPart = Joined(urlArgs.paths)
        /\ (\A k \in DOMAIN urlArgs.paths :
               LET c == Content(urlArgs.paths[k])
               IN  /\ c # << >>
                   /\ \A i \in 1..(Len(c) - 1) : ~(c[i] = Sep /\ c[i + 1] = Sep))
           => /\ \A i \in 1..(Len(PathPart) - 1) :
                    ~(PathPart[i] = Sep /\ PathPart[i + 1] = Sep)
              /\ PathPart # << >> => PathPart[Len(PathPart)] # Sep

C12_Witness ==
    /\ url.state = "built"
    /\ Len(urlArgs.paths) = 2
    /\ urlArgs.paths[1] = << "/", "/", "a", "/" >>
    /\ urlArgs.paths[2] = << "/", "b", "/" >>

\* The '&' inside the given fragments.
RECURSIVE JoinersInside(_)
JoinersInside(fr) ==
    IF fr = << >> THEN 0 ELSE Count("&", Head(fr)) + JoinersInside(Tail(fr))

\* Where fragment i starts in the query when one joiner follows every fragment
\* before it.
RECURSIVE Offset(_, _)
Offset(fr, i) == IF i = 1 THEN 1 ELSE Offset(fr, i - 1) + Len(fr[i - 1]) + 1

\* C13: with n fragments appended the built URL has no '?' when n = 0 and
\* exactly one when n >= 1; after it the fragments stand in append order with
\* exactly n-1 '&' inserted, one between every two neighbours.
C13_QueryJoined ==
    url.state = "built" =>
        LET fr == Fragments
            n == Len(fr)
        IN  /\ n = 0 => Count("?", url.text) = 0
            /\ n >= 1 =>
                 /\ Count("?", url.text) = 1
                 /\ Count("&", url.text) = (n - 1) + JoinersInside(fr)
                 /\ Len(QueryPart) = Offset(fr, n) + Len(fr[n]) - 1
                 /\ \A i \in 1..n :
                      /\ SubSeq(QueryPart, Offset(fr, i),
                                Offset(fr, i) + Len(fr[i]) - 1) = fr[i]
                      /\ i > 1 => QueryPart[Offset(fr, i) - 1] = "&"

C13_Witness ==
    /\ url.state = "built"
    /\ Len(Fragments) = 2
    /\ Fragments[1] = << "k", "&", "l" >>
    /\ Fragments[2] = << "m" >>
    /\ urlArgs.paths # << >>

\* ---------------------------------------------------------------- claims on the hooks

\* The hooks or callbacks the options of the call register with op, in order.
RECURSIVE RegisteredIn(_, _)
RegisteredIn(o, op) ==
    IF o = << >> THEN << >>
    ELSE (IF Head(o).op = op THEN << Head(o).id >> ELSE << >>)
         \o RegisteredIn(Tail(o), op)

Registered(op) == RegisteredIn(opts, op)

\* The transport has been invoked in the current attempt.
Sent ==
    \/ pc \in {"applyAfter", "matchOK", "matchError", "rateLimitResponse",
               "newUnhandledResponse"}
    \/ /\ pc \in {"closeBody", "done"}
       /\ outcome \in {"transport", "applyAfter", "matchOK", "matchError", "retry",
                       "cooldown", "unhandled", "read"}

\* C14: on every attempt the pre-send hooks run in registration order before
\* the transport is invoked; when a hook fails no later pre-send hook runs, the
\* transport is not invoked on that attempt and Do returns the error of that hook.
C14_PreSendHooks ==
    LET hooks == Registered("WithHandlerBeforeResponse")
    IN  /\ (pc = "send" \/ Sent) => beforeLog = hooks
        /\ outcome = "applyBefore" =>
             /\ pc = "done"
             /\ \E k \in DOMAIN hooks :
                  /\ beforeLog = SubSeq(hooks, 1, k)
                  /\ retErr = NewError("before", k)
             /\ sends = cooldowns
             /\ opened = sends
             /\ closed = opened

C14_Witness ==
    /\ pc = "done"
    /\ outcome = "applyBefore"
    /\ Registered("WithHandlerBeforeResponse") = << "b2", "b1" >>
    /\ beforeLog = << "b2" >>
    /\ sends = 1

\* C15: once a response is there the post-receive hooks run in registration
\* order before any classifier is called; when a hook fails no later
\* post-receive hook and no classifier is called, the body of the response is
\* closed and Do returns the error of that hook.
C15_PostReceiveHooks ==
    LET hooks == Registered("WithHandlerAfterResponse")
    IN  /\ pc = "applyAfter" => afterLog = << >> /\ evalLog = << >>
        /\ pc \in {"matchOK", "matchError", "rateLimitResponse", "newUnhandledResponse"}
             => afterLog = hooks
        /\ evalLog # << >> => afterLog = hooks
        /\ outcome = "applyAfter" =>
             /\ pc \in {"closeBody", "done"}
             /\ ~tryAgain
             /\ \E k \in DOMAIN hooks :
                  /\ afterLog = SubSeq(hooks, 1, k)
                  /\ retErr # NoError
                  /\ << retErr[1] >> = NewError("after", k)
             /\ evalLog = << >>
             /\ pc = "done" => closed = opened /\ opened = sends

C15_Witness ==
    /\ pc = "done"
    /\ outcome = "applyAfter"
    /\ Registered("WithHandlerAfterResponse") = << "a2", "a1" >>
    /\ afterLog = << "a2" >>
    /\ retErr = NewError("after", 1)
    /\ closed = 1

\* The exits of an attempt other than a cooldown that succeeded.
Terminal ==
    {"option", "validation", "prepareRequest", "applyBefore", "transport",
     "applyAfter", "matchOK", "matchError", "cooldown", "unhandled", "read"}

\* The error classifiers that return an error on the current response.
Matching ==
    { i \in DOMAIN params.handler.errorResponses :
        errorResponse(params.handler.errorResponses[i], resp, i).err # NoError }

C17_CooldownError ==
    outcome = "cooldown" =>
        /\ pc \in {"closeBody", "done"}
        /\ ~tryAgain
        /\ retErr # NoError
        /\ retErr[1].kind \in {"cooldown", "ctx.Err"}
        /\ retErr[1].kind = "cooldown" =>
             /\ handled # << >>
             /\ handled[Len(handled)].err = << retErr[1] >>
        /\ sends = cooldowns
        /\ pc = "done" => closed = opened /\ opened = sends

C17_Witness ==
    /\ pc = "done"
    /\ outcome = "cooldown"
    /\ retErr = NewError("cooldown", 0)
    /\ sends = 2
    /\ closed = 2

\* C18: a callback built with NewRateLimitHandlerBeforeDone that is invoked
\* when the context is cancelled does not call the wrapped handler and returns
\* the error of the context, and Do ends with that error without another send;
\* invoked when the context is not cancelled it calls the wrapped handler and
\* returns exactly what the handler returns.
C18_BeforeDone ==
    /\ [](Has(retErr, "ctx.Err") =>
            /\ pc \in {"closeBody", "done"}
            /\ ~tryAgain
            /\ outcome = "cooldown"
            /\ << retErr[1] >> = ctxErr
            /\ sends = cooldowns)
    /\ [][(/\ pc = "rateLimitResponse"
           /\ cooldowns' = cooldowns + 1
           /\ IsBeforeDone(params.handler.rateLimitResponse))
          => IF ctxDone
             THEN /\ handled' = handled
                  /\ retErr' = ctxErr
                  /\ tryAgain' = FALSE
             ELSE /\ Len(handled') = Len(handled) + 1
                  /\ SubSeq(handled', 1, Len(handled)) = handled
                  /\ LET h == handled'[Len(handled')]
                     IN  /\ h.name = Wrapped(params.handler.rateLimitResponse)
                         /\ retErr' = h.err
                         /\ tryAgain' = (h.err = NoError)]_vars

C18_Witness ==
    /\ pc = "done"
    /\ IsBeforeDone(params.handler.rateLimitResponse)
    /\ cancelled
    /\ retErr = ctxErr
    /\ sends = 2
    /\ Len(handled) = 1
    /\ closed = 2

\* ---------------------------------------------------------------- claims on the multipart body

\* The add operations whose content source failed, by their position, in order.
RECURSIVE FailingFrom(_)
FailingFrom(k) ==
    IF k > Len(form.calls) THEN << >>
    ELSE (IF form.calls[k].fails THEN << k >> ELSE << >>) \o FailingFrom(k + 1)

Failing == FailingFrom(1)

\* C19: an error in an add operation is recorded and later add operations are
\* still carried out; the fragment of Body applied with at least one recorded
\* error returns the join of all recorded errors, in the order they occurred,
\* and leaves the body and the Content-Type header of the descriptor as they were.
C19_ErrorsAccumulate ==
    /\ Len(builder.buf) = Len(form.calls)
    /\ Len(builder.errs) = Len(Failing)
    /\ \A j \in DOMAIN builder.errs : builder.errs[j] = NewError("copy", Failing[j])
    /\ (form.applied /\ Failing # << >>) =>
         /\ Len(form.err) = Len(Failing)
         /\ \A j \in DOMAIN form.err : << form.err[j] >> = NewError("copy", Failing[j])
         /\ form.params.body = form.before.body
         /\ form.params.headers = form.before.headers
         /\ form.params = form.before

C19_Witness ==
    /\ form.applied
    /\ Failing = << 1, 3 >>
    /\ Len(form.calls) = 3
    /\ form.before.body # NoBody
    /\ Len(form.err) = 2

\* C20: the sections of the finalized body stand in the order the add
\* operations were called, one section for every add operation that succeeded;
\* two fields added under the same name give two sections and neither replaces
\* the other.
C20_SectionsInOrder ==
    /\ \A k \in DOMAIN builder.buf :
         k <= Len(form.calls) /\ builder.buf[k].fieldName = form.calls[k].fieldName
    /\ (form.applied /\ form.err = NoError) =>
         /\ Len(form.content) = Len(form.calls)
         /\ \A k \in DOMAIN form.content :
              /\ form.content[k].fieldName = form.calls[k].fieldName
              /\ form.content[k].content = form.calls[k].content
              /\ form.content[k].complete
              /\ form.content[k].kind =
                   (IF form.calls[k].op = "AddString" THEN "field" ELSE "file")
         /\ form.params.body.kind = "multipart"

C20_Witness ==
    /\ form.applied
    /\ form.err = NoError
    /\ Len(form.calls) = 3
    /\ form.calls[1].op = "AddString"
    /\ form.calls[3].op = "AddString"
    /\ form.calls[1].fieldName = form.calls[3].fieldName
    /\ form.calls[1].content # form.calls[3].content
    /\ form.calls[2].op = "AddAsFile"

\* C21: AddFile, AddAsFile and AddAsFileWithType close a content source that
\* is an io.Closer exactly once before they return, whether the copy into the
\* section failed or succeeded, and a source that is not an io.Closer never.
C21_ContentClosedOnce ==
    \A k \in DOMAIN form.calls :
        form.calls[k].op \in {"AddFile", "AddAsFile", "AddAsFileWithType"} =>
            form.calls[k].closes = (IF form.calls[k].closer THEN 1 ELSE 0)

C21_Witness ==
    /\ Len(form.calls) = 3
    /\ form.calls[1].op = "AddAsFile"
    /\ form.calls[1].closer /\ form.calls[1].fails /\ form.calls[1].closes = 1
    /\ form.calls[2].op = "AddAsFileWithType"
    /\ form.calls[2].closer /\ ~form.calls[2].fails /\ form.calls[2].closes = 1
    /\ form.calls[3].op = "AddFile"
    /\ form.calls[3].fails /\ form.calls[3].closes = 1

\* ------------------------------------------------- claims on the attempt loop

\* A classifier called on the current response has handed its body to a decoder.
Decoded ==
    \E k \in DOMAIN evalLog :
        IF evalLog[k] = 0
        THEN resp.status \in params.handler.okResponse.statuses
        ELSE /\ params.handler.errorResponses[evalLog[k]].kind = "Error"
             /\ resp.status \in params.handler.errorResponses[evalLog[k]].statuses

\* The result of the last close of a response body.
LastClose == closeLog[Len(closeLog)]

\* C22: when the close of the response body fails on an attempt that already
\* returns a primary error, the error of Do is the primary error followed by the
\* close error: the primary error is kept as it was and the close error is
\* neither dropped nor put in its place; an unhandled response whose body fails
\* to close ends Do with the unhandled-response error joined with the close error.
C22_CloseErrorJoined ==
    /\ [][(pc = "closeBody" /\ pc' # "closeBody" /\ retErr # NoError) =>
            /\ Len(closeLog') = Len(closeLog) + 1
            /\ LET closeErr == closeLog'[Len(closeLog')]
               IN  /\ SubSeq(retErr', 1, Len(retErr)) = retErr
                   /\ SubSeq(retErr', Len(retErr) + 1, Len(retErr')) = closeErr
                   /\ closeErr # NoError => Has(retErr', "close")
            /\ pc' = "done"]_vars
    /\ []((/\ pc = "done"
            /\ outcome = "unhandled"
            /\ closeLog # << >>
            /\ LastClose # NoError)
           => /\ Len(retErr) = 2
              /\ retErr[1].kind = "UnhandledResponseError"
              /\ retErr[1].status = resp.status
              /\ retErr[1].header = resp.header
              /\ retErr[1].body = (IF Decoded THEN "" ELSE resp.body)
              /\ << retErr[2] >> = LastClose)

C22_Witness ==
    /\ pc = "done"
    /\ outcome = "cooldown"
    /\ closeLog # << >>
    /\ LastClose # NoError
    /\ Len(retErr) = 2
    /\ retErr[2].kind = "close"
    /\ retErr[1].kind # "close"

\* C23: the request dispatched on a retry is the one dispatched on the first
\* attempt, with the same configured headers and the same body content: every
\* request handed to the transport equals the first one, and a call configured
\* with a body sends that body in full on every attempt.
C23_SameRequestOnRetry ==
    \A k \in DOMAIN reqLog :
        /\ reqLog[k] = reqLog[1]
        /\ params.body # NoBody => reqLog[k].body = "full"

\* ------------------------------------------------- calls sharing an option slice

\* Calls of Do that run at the same time and are passed one slice (opts...),
\* and the length of that slice.
MaxCalls == 2

MaxShared == 1

\* An element of the array behind a slice: a fragment and, for a default, the
\* call whose descriptor fields its closure holds pointers to (0: none).
Slot(f, owner) == [opt |-> f, owner |-> owner]

NilSlot == Slot(Opt("nil", Nil, {}, FALSE), 0)

SharedOptions ==
    { Opt("WithContext", "ctx1", {}, FALSE),
      Opt("WithHandlerBeforeResponse", "b1", {}, FALSE) }

\* newDoParams entered by call c: its own descriptor, nothing appended yet.
NewCall == [pc |-> "append", idx |-> 1, params |-> NewParams, own |-> << >>,
            applied |-> << >>, fetched |-> NilSlot]

\* The caller's slice o: with spare capacity its array has room for two more
\* elements after len(o), without it the array is full.
SharedSlice(o, spare) ==
    [spare |-> spare,
     n |-> Len(o),
     backing |-> [k \in 1..Len(o) |-> Slot(o[k], 0)]
                 \o (IF spare THEN << NilSlot, NilSlot >> ELSE << >>),
     call |-> [c \in 1..MaxCalls |-> NewCall]]

\* optparams.Default(&params.ctx, ...) and optparams.Default(&params.client, ...)
\* as call c builds them: closures over the fields of the descriptor of c.
DefaultsOf(c) ==
    << Slot(Opt("Default", "Background", {}, TRUE), c),
       Slot(Opt("Default", "DefaultClient", {}, FALSE), c) >>

\* The array the slice of call c points to once append has returned.
ArrayOf(c) == IF shared.spare THEN shared.backing ELSE shared.call[c].own

\* opts = append(opts, default, default) in call c, first element: with spare
\* capacity it is stored in the caller's array at len(opts), without it the
\* elements are copied to a new array that takes both defaults.
appendFirst(c) ==
    /\ shared.call # << >>
    /\ shared.call[c].pc = "append"
    /\ IF shared.spare
       THEN shared' = [shared EXCEPT !.backing[shared.n + 1] = DefaultsOf(c)[1],
                                     !.call[c].pc = "appendSecond"]
       ELSE shared' = [shared EXCEPT !.call[c].own = shared.backing \o DefaultsOf(c),
                                     !.call[c].pc = "Apply"]
    /\ UNCHANGED << runVars, urlVars, formVars, hdr >>

\* The second element stored in the caller's array.
appendSecond(c) ==
    /\ shared.call # << >>
    /\ shared.call[c].pc = "appendSecond"
    /\ shared' = [shared EXCEPT !.backing[shared.n + 2] = DefaultsOf(c)[2],
                                !.call[c].pc = "Apply"]
    /\ UNCHANGED << runVars, urlVars, formVars, hdr >>

\* Call c has gone through fragment i of its slice.
Advance(c, i, owner) ==
    [d \in DOMAIN shared.call |->
        IF d = c
        THEN [shared.call[d] EXCEPT
                !.idx = i + 1,
                !.applied = Append(@, owner),
                !.pc = IF i = shared.n + 2 THEN "configured" ELSE "Apply"]
        ELSE shared.call[d]]

\* optparams.Apply(params, opts...) in call c, one fragment: a fragment of the
\* caller works on the descriptor it is given; a default reads, through the
\* pointer it was built with, the field it may fill, and where it finds a value
\* it is done. No lock is held: the store is a step of its own.
applyShared(c) ==
    /\ shared.call # << >>
    /\ shared.call[c].pc = "Apply"
    /\ LET i == shared.call[c].idx
           slot == ArrayOf(c)[i]
           target == IF slot.owner = 0 THEN c ELSE slot.owner
       IN  IF slot.opt.op = "Default"
           THEN IF (IF slot.opt.flag THEN shared.call[target].params.ctx = Nil
                    ELSE shared.call[target].params.client = Nil)
                THEN shared' = [shared EXCEPT !.call[c].pc = "Store",
                                              !.call[c].fetched = slot]
                ELSE shared' = [shared EXCEPT !.call = Advance(c, i, slot.owner)]
           ELSE LET r == ApplyOption(shared.call[c].params, slot.opt, i)
                IN  shared' = [shared EXCEPT
                                 !.call = [Advance(c, i, slot.owner) EXCEPT
                                             ![c].params = r.params]]
    /\ UNCHANGED << runVars, urlVars, formVars, hdr >>

\* The default that found its field empty stores its value there, through the
\* pointer the closure the call is running was built with, whatever another
\* call has stored in the field or in the array since the test.
storeShared(c) ==
    /\ shared.call # << >>
    /\ shared.call[c].pc = "Store"
    /\ LET i == shared.call[c].idx
           slot == shared.call[c].fetched
           target == IF slot.owner = 0 THEN c ELSE slot.owner
       IN  shared' = [shared EXCEPT
                        !.call = [Advance(c, i, slot.owner) EXCEPT
                                    ![c].fetched = NilSlot,
                                    ![target].params =
                                        IF slot.opt.flag
                                        THEN [@ EXCEPT !.ctx = slot.opt.id]
                                        ELSE [@ EXCEPT !.client = slot.opt.id]]]
    /\ UNCHANGED << runVars, urlVars, formVars, hdr >>

InitShared ==
    /\ opts = << >>
    /\ pc = "newDoParams"
    /\ idx = 1
    /\ params = NewParams
    /\ resp = NoResponse
    /\ retErr = NoError
    /\ tryAgain = FALSE
    /\ sends = 0
    /\ opened = 0
    /\ closed = 0
    /\ cooldowns = 0
    /\ beforeLog = << >>
    /\ afterLog = << >>
    /\ evalLog = << >>
    /\ outcome = ""
    /\ cancelled = FALSE
    /\ handled = << >>
    /\ closeLog = << >>
    /\ req = NoRequest
    /\ reqLog = << >>
    /\ bodyRead = FALSE
    /\ shared \in { SharedSlice(o, spare) : o \in SeqsUpTo(SharedOptions, MaxShared),
                                             spare \in BOOLEAN }
    /\ hdr = NoFragments
    /\ urlBuilder = NewURLBuilder
    /\ url = [text |-> << >>, state |-> "options"]
    /\ urlArgs = [base |-> << >>, paths |-> << >>, data |-> << >>, queryFirst |-> FALSE]
    /\ builder = NewMultipartFormBuilder
    /\ form = NewForm(NewParams)

NextShared ==
    \/ \E c \in 1..MaxCalls : appendFirst(c)
    \/ \E c \in 1..MaxCalls : appendSecond(c)
    \/ \E c \in 1..MaxCalls : applyShared(c)
    \/ \E c \in 1..MaxCalls : storeShared(c)

SpecShared == InitShared /\ [][NextShared]_vars

\* C24: calls of Do that run at the same time, also when they are passed the
\* same option slice, work on their own descriptor only: a call applies the
\* fragments of its caller and the defaults it appended itself, never the
\* defaults of another call, and it ends the configuration with a context and
\* a client in its own descriptor.
C24_OwnDescriptor ==
    \A c \in DOMAIN shared.call :
        /\ \A k \in DOMAIN shared.call[c].applied :
              shared.call[c].applied[k] \in {0, c}
        /\ shared.call[c].pc = "configured" =>
              /\ shared.call[c].params.ctx # Nil
              /\ shared.call[c].params.client # Nil

\* C25: within one call at most one request is in flight and at most one
\* response body is open: a request goes to the transport, and a pre-send hook
\* runs, only when every request sent before has had its response body closed,
\* so the body of attempt k is closed before attempt k+1 runs its hooks or sends.
C25_OneAtATime ==
    /\ [](/\ opened - closed \in {0, 1}
          /\ Len(reqLog) = sends
          /\ pc \in {"prepareRequest", "applyBefore", "send"} =>
                /\ Len(closeLog) = Len(reqLog)
                /\ closed = sends)
    /\ [][(sends' = sends + 1 \/ Len(beforeLog') > Len(beforeLog)) =>
            /\ opened = closed
            /\ Len(closeLog) = sends]_vars

C25_Witness ==
    /\ pc = "send"
    /\ sends = 1
    /\ opened = 1
    /\ closed = 1
    /\ Len(closeLog) = 1
    /\ beforeLog # << >>

\* C26: when the transport returns an error, Do returns that error as the
\* error wrapper hands it back, and on that attempt no post-receive hook runs,
\* no classifier is evaluated, the cooldown callback is not invoked, no body is
\* closed, and no other send follows.
C26_TransportError ==
    /\ [](outcome = "transport" =>
            /\ pc = "done"
            /\ retErr = errorWrapper(NewError("transport", 0))
            /\ resp = NoResponse
            /\ afterLog = << >>
            /\ evalLog = << >>
            /\ opened = sends - 1
            /\ closed = sends - 1
            /\ Len(closeLog) = sends - 1
            /\ cooldowns = sends - 1)
    /\ [][outcome' = "transport" =>
            /\ sends' = sends + (IF outcome = "transport" THEN 0 ELSE 1)
            /\ UNCHANGED << opened, closed, closeLog, cooldowns, handled, afterLog,
                            evalLog >>]_vars

C26_Witness ==
    /\ outcome = "transport"
    /\ pc = "done"
    /\ sends = 2
    /\ params.handler.afterResponse # << >>
    /\ params.handler.errorResponses # << >>
    /\ params.handler.rateLimitResponse # Nil

\* A classifier that can yield the sentinel is registered in the handler h.
YieldsSentinel(h) ==
    \E k \in DOMAIN h.errorResponses : h.errorResponses[k].kind = "RateLimit"

\* C27: the rate-limited sentinel is never the error Do returns: whenever a
\* classifier that can yield it is registered, a cooldown callback is registered
\* too, so a response the classifiers answer with the sentinel goes to the
\* cooldown callback, and from there Do either asks for another attempt with no
\* error or ends with the error of the callback.
C27_SentinelStaysInside ==
    /\ [](/\ ~Has(retErr, "errRateLimit")
          /\ YieldsSentinel(params.handler) => params.handler.rateLimitResponse # Nil)
    /\ [][(pc = "matchError" /\ pc' # pc /\ IsRateLimit(matchError(params.handler, resp).err))
            => pc' = "rateLimitResponse"]_vars
    /\ [][(pc = "rateLimitResponse" /\ pc' # pc) =>
            /\ pc' = "closeBody"
            /\ \/ tryAgain' /\ retErr' = NoError
               \/ /\ ~tryAgain'
                  /\ retErr' # NoError
                  /\ outcome' = "cooldown"
                  /\ ~IsRateLimit(retErr')]_vars

C27_Witness ==
    /\ pc = "rateLimitResponse"
    /\ sends = 2
    /\ cooldowns = 1
    /\ IsRateLimit(matchError(params.handler, resp).err)
    /\ retErr = NoError

\* The fragment is a Cooldown built with a nil handler.
IsNilCooldown(f) == f.op = "Cooldown" /\ f.id = Nil

\* C28: a Cooldown fragment built with a nil handler fails when it is applied,
\* with the error of the configuration; it leaves the handlers of the descriptor
\* as they were, so it registers no cooldown callback and no rate-limit
\* classifier, and the call ends with no hook run and nothing sent.
C28_NilCooldownFails ==
    \A j \in DOMAIN opts :
        IsNilCooldown(opts[j]) =>
            /\ ~Succeeded(j)
            /\ Failed(j) =>
                  /\ retErr = NewError("rate limit handler is nil", j)
                  /\ params.handler = ParamsAfter(AllOpts, j - 1).handler
                  /\ (\A k \in 1..(j - 1) : opts[k].op # "Cooldown") =>
                        /\ params.handler.rateLimitResponse = Nil
                        /\ ~YieldsSentinel(params.handler)
                  /\ sends = 0 /\ opened = 0 /\ cooldowns = 0
                  /\ beforeLog = << >> /\ reqLog = << >>

C28_Witness ==
    /\ Len(opts) = 3
    /\ opts[1].op = "OKTo"
    /\ IsNilCooldown(opts[2])
    /\ opts[3].op = "WithBytes"
    /\ Failed(2)
    /\ params.handler.okResponse.set
    /\ params.handler.errorResponses = << >>
    /\ params.body = NoBody

\* C29: the loop of Do has no cap on the attempts: after an attempt whose
\* response was rate-limited, whose cooldown callback succeeded and whose body
\* closed without error, Do starts another attempt whatever the number of sends
\* so far, and it ends only with an error or after an attempt that did not ask
\* for another one.
C29_NoAttemptCap ==
    /\ [](pc = "done" => (retErr # NoError \/ ~tryAgain))
    /\ [][(pc = "closeBody" /\ pc' # pc) =>
            IF tryAgain /\ retErr' = NoError
            THEN /\ pc' = "prepareRequest"
                 /\ cooldowns = sends
            ELSE pc' = "done"]_vars

C29_Witness ==
    /\ pc = "send"
    /\ sends = MaxAttempts
    /\ cooldowns = MaxAttempts
    /\ closed = MaxAttempts
    /\ retErr = NoError

\* ------------------------------------------------------ header fragments

\* The header fragments applied to one descriptor.
MaxFragments == 3

AllLower(k) == [n \in DOMAIN k |-> ToLower(k[n])]

AllUpper(k) == [n \in DOMAIN k |-> ToUpper(k[n])]

\* The keys the caller writes: a predefined header in lower case, a header of
\* its own in upper case and in mixed case, and a key with a space.
HeaderXID == << "X", "-", "I", "d" >>

HeaderInputs ==
    { AllLower(HeaderContentType), AllUpper(HeaderXID), << "x", "-", "i", "D" >>,
      << "x", " ", "y" >> }

HeaderValues == { "v1", "v2" }

AppendModes == { << >>, << TRUE >> }

\* A fragment applied: what the caller wrote and whether it returned nil.
Fragment(op, key, value, appendMode, r) ==
    [op |-> op, key |-> key, value |-> value, appendMode |-> appendMode,
     ok |-> r.err = NoError]

AppliedFragment(op, key, value, appendMode, r) ==
    /\ Len(hdr.log) < MaxFragments
    /\ \A n \in DOMAIN hdr.log : hdr.log[n].ok
    /\ hdr' = [params |-> r.params,
               log |-> Append(hdr.log, Fragment(op, key, value, appendMode, r))]
    /\ UNCHANGED << runVars, urlVars, formVars, shared >>

HeaderWithHeader ==
    \E key \in HeaderInputs, value \in HeaderValues, appendMode \in AppendModes :
        AppliedFragment("WithHeader", key, value, appendMode,
                        WithHeader(hdr.params, key, value, appendMode))

HeaderWithContentType ==
    \E value \in HeaderValues, appendMode \in AppendModes :
        AppliedFragment("WithContentType", HeaderContentType, value, appendMode,
                        WithContentType(hdr.params, value, appendMode))

HeaderWithAccept ==
    \E appendMode \in AppendModes :
        AppliedFragment("WithAccept", HeaderAccept, "v1", appendMode,
                        WithAccept(hdr.params, "v1", appendMode))

HeaderWithAuth ==
    \E appendMode \in AppendModes :
        AppliedFragment("WithAuth", HeaderAuthorization, "v1", appendMode,
                        WithAuth(hdr.params, "v1", appendMode))

HeaderWithTextPlain ==
    AppliedFragment("WithTextPlain", HeaderContentType, "text/plain", << >>,
                    WithTextPlain(hdr.params, Opt("WithTextPlain", "", {}, FALSE),
                                  Len(hdr.log) + 1))

HeaderMultipartBody ==
    AppliedFragment("MultipartBody", HeaderContentType, "multipart/form-data", << >>,
                    Body(NewMultipartFormBuilder, hdr.params, Len(hdr.log) + 1))

InitHeaders ==
    /\ opts = << >>
    /\ pc = "newDoParams"
    /\ idx = 1
    /\ params = NewParams
    /\ resp = NoResponse
    /\ retErr = NoError
    /\ tryAgain = FALSE
    /\ sends = 0
    /\ opened = 0
    /\ closed = 0
    /\ cooldowns = 0
    /\ beforeLog = << >>
    /\ afterLog = << >>
    /\ evalLog = << >>
    /\ outcome = ""
    /\ cancelled = FALSE
    /\ handled = << >>
    /\ closeLog = << >>
    /\ req = NoRequest
    /\ reqLog = << >>
    /\ bodyRead = FALSE
    /\ shared = NoCalls
    /\ hdr = NoFragments
    /\ urlBuilder = NewURLBuilder
    /\ url = [text |-> << >>, state |-> "options"]
    /\ urlArgs = [base |-> << >>, paths |-> << >>, data |-> << >>, queryFirst |-> FALSE]
    /\ builder = NewMultipartFormBuilder
    /\ form = NewForm(NewParams)

NextHeaders ==
    \/ HeaderWithHeader
    \/ HeaderWithContentType
    \/ HeaderWithAccept
    \/ HeaderWithAuth
    \/ HeaderWithTextPlain
    \/ HeaderMultipartBody

SpecHeaders == InitHeaders /\ [][NextHeaders]_vars

\* ------------------------------------------------- claims on the header map

\* Two keys name the same header: they differ in letter case only.
SameHeader(a, b) == AllLower(a) = AllLower(b)

\* Every character of the key is valid in a header field name.
IsValidKey(k) == \A n \in DOMAIN k : validHeaderFieldByte(k[n])

\* The canonical MIME header form: the first letter and the letters after a
\* '-' are not in lower case, no other letter is in upper case.
InCanonicalForm(k) ==
    \A n \in DOMAIN k :
        IF n = 1 \/ k[n - 1] = "-" THEN ~IsLower(k[n]) ELSE ~IsUpper(k[n])

\* The fragments applied so far that returned nil and name the header of key k.
FragmentsFor(k) ==
    { n \in DOMAIN hdr.log : hdr.log[n].ok /\ SameHeader(hdr.log[n].key, k) }

\* C30 as stated: after any sequence of header fragments every key of the
\* header map is in canonical MIME header form, the predefined keys are
\* canonical, and fragments for the same header in different letter case
\* address the same entry, whatever key the caller wrote.
C30_Original ==
    /\ \A k \in DOMAIN hdr.params.headers : InCanonicalForm(k)
    /\ \A k \in HeaderKeys : InCanonicalForm(k)
    /\ \A k1, k2 \in DOMAIN hdr.params.headers : SameHeader(k1, k2) => k1 = k2

\* C30: after any sequence of header fragments every key of the header map that
\* is a valid header field name is in canonical MIME header form, and a key with
\* a character that is not valid in a field name is in the map exactly as a
\* fragment wrote it; the predefined keys are canonical; fragments that name
\* the same valid header in different letter case address one entry, which
\* ends with the value of the last of them.
C30_CanonicalKeys ==
    /\ \A k \in DOMAIN hdr.params.headers :
          IF IsValidKey(k)
          THEN InCanonicalForm(k)
          ELSE \E n \in DOMAIN hdr.log : hdr.log[n].ok /\ hdr.log[n].key = k
    /\ \A k \in HeaderKeys : IsValidKey(k) /\ InCanonicalForm(k)
    /\ \A k1, k2 \in DOMAIN hdr.params.headers :
          (IsValidKey(k1) /\ SameHeader(k1, k2)) => k1 = k2
    /\ \A n \in DOMAIN hdr.log :
          (hdr.log[n].ok /\ IsValidKey(hdr.log[n].key)) =>
              \E k \in DOMAIN hdr.params.headers :
                  /\ SameHeader(k, hdr.log[n].key)
                  /\ (\A m \in FragmentsFor(k) : m <= n) =>
                        hdr.params.headers[k][Len(hdr.params.headers[k])]
                            = hdr.log[n].value

C30_Witness ==
    /\ Len(hdr.log) = 3
    /\ hdr.log[1].op = "WithHeader"
    /\ hdr.log[1].key = AllLower(HeaderContentType)
    /\ hdr.log[2].op = "WithContentType"
    /\ hdr.log[2].appendMode = << TRUE >>
    /\ hdr.log[3].op = "WithHeader"
    /\ hdr.log[3].key = << "x", " ", "y" >>
    /\ DOMAIN hdr.params.headers = { HeaderContentType, << "x", " ", "y" >> }
    /\ Len(hdr.params.headers[HeaderContentType]) = 2

\* The fragment e names the header stored under the key k.
Names(e, k) == IF IsValidKey(e.key) THEN SameHeader(e.key, k) ELSE e.key = k

\* The values the first n fragments leave for the key k: a fragment without
\* append mode starts the list again with its value, one with append mode adds
\* its value at the end.
RECURSIVE ValuesAfter(_, _, _)
ValuesAfter(log, k, n) ==
    IF n = 0 THEN << >>
    ELSE IF log[n].ok /\ Names(log[n], k)
         THEN IF optionalBool(log[n].appendMode)
              THEN Append(ValuesAfter(log, k, n - 1), log[n].value)
              ELSE << log[n].value >>
         ELSE ValuesAfter(log, k, n - 1)

\* C31: a header fragment applied without append mode replaces all values stored
\* for its key by its one value; applied with HeaderAppendModeON it keeps the
\* values stored and adds its value at the end, so the values of every key are
\* those of the fragments since the last replacing one, in application order,
\* and a key no fragment named has no entry.
C31_ReplaceOrAppend ==
    /\ \A k \in DOMAIN hdr.params.headers :
          hdr.params.headers[k] = ValuesAfter(hdr.log, k, Len(hdr.log))
    /\ \A n \in DOMAIN hdr.log :
          hdr.log[n].ok =>
              \E k \in DOMAIN hdr.params.headers : Names(hdr.log[n], k)

C31_Witness ==
    /\ Len(hdr.log) = 3
    /\ hdr.log[1].op = "WithContentType"
    /\ hdr.log[1].value = "v1"
    /\ hdr.log[2].op = "WithHeader"
    /\ hdr.log[2].key = AllLower(HeaderContentType)
    /\ hdr.log[2].value = "v2"
    /\ hdr.log[2].appendMode = << >>
    /\ hdr.log[3].op = "WithContentType"
    /\ hdr.log[3].value = "v1"
    /\ hdr.log[3].appendMode = << TRUE >>
    /\ hdr.params.headers[HeaderContentType] = << "v2", "v1" >>

\* ------------------------------------------------- claims on the order of the URL fragments

\* The fragments after the '?', each after the first behind one '&'.
RECURSIVE JoinedQuery(_)
JoinedQuery(fr) ==
    IF fr = << >> THEN << >>
    ELSE IF Len(fr) = 1 THEN Head(fr)
         ELSE Head(fr) \o << "&" >> \o JoinedQuery(Tail(fr))

\* C32: the built URL does not depend on how path fragments and query fragments
\* were interleaved: it is the stripped base, then all segments in their order,
\* then, when a query value that is not nil was appended, '?' and the query
\* fragments in their order; so no segment stands after the '?', also when a
\* query fragment was appended before a path fragment, and a nil query value
\* adds no fragment and no '?'.
C32_OrderIndependent ==
    url.state = "built" =>
        LET n == StrippedLen(urlArgs.base)
        IN  /\ url.text = SubSeq(urlArgs.base, 1, n) \o Joined(urlArgs.paths)
                           \o (IF Fragments = << >> THEN << >>
                               ELSE << "?" >> \o JoinedQuery(Fragments))
            /\ (\A k \in DOMAIN urlArgs.data : urlArgs.data[k].kind = Nil)
                  => Count("?", url.text) = 0
            /\ \A i \in DOMAIN url.text : i > QueryAt => url.text[i] # Sep

C32_Witness ==
    /\ url.state = "built"
    /\ urlArgs.queryFirst
    /\ Len(urlArgs.data) = 2
    /\ urlArgs.data[1].kind = "struct"
    /\ urlArgs.data[1].encoded # << >>
    /\ urlArgs.data[2].kind = Nil
    /\ Len(urlArgs.paths) = 2
    /\ HasContent(urlArgs.paths[1])
    /\ Count("?", url.text) = 1

\* ------------------------------------------------- claims on the rate-limit classifier

\* C33: the rate-limit classifier is an ordinary member of the sequence of the
\* error classifiers: when the cooldown callback is reached, the classifier
\* that answered is a rate-limit classifier and no classifier registered before
\* it contains the status of the response; and when an error classifier
\* registered before every rate-limit classifier contains a status that a
\* rate-limit classifier contains too, the attempt ends with the error of that
\* classifier, with no cooldown and no retry.
C33_RateLimitInOrder ==
    /\ pc = "rateLimitResponse" =>
          /\ evalLog # << >>
          /\ LET i == evalLog[Len(evalLog)]
             IN  /\ i \in DOMAIN params.handler.errorResponses
                 /\ params.handler.errorResponses[i].kind = "RateLimit"
                 /\ \A k \in 1..(i - 1) :
                       resp.status \notin params.handler.errorResponses[k].statuses
    /\ (/\ pc \in {"rateLimitResponse", "newUnhandledResponse", "closeBody"}
        /\ evalLog # << >>
        /\ evalLog[Len(evalLog)] # 0
        /\ \E k \in DOMAIN params.handler.errorResponses :
              /\ params.handler.errorResponses[k].kind = "Error"
              /\ resp.status \in params.handler.errorResponses[k].statuses
              /\ \A j \in 1..(k - 1) :
                    params.handler.errorResponses[j].kind = "Error"
              /\ \E r \in DOMAIN params.handler.errorResponses :
                    /\ r > k
                    /\ params.handler.errorResponses[r].kind = "RateLimit"
                    /\ resp.status \in params.handler.errorResponses[r].statuses)
       => /\ pc = "closeBody"
          /\ outcome = "matchError"
          /\ ~tryAgain
          /\ retErr # NoError

\* C34: on a rate-limited attempt the cooldown callback is invoked with the
\* context of the call and the response of that attempt while the body of the
\* response is still open: every call of the caller's handler got them, the
\* cooldown step closes nothing, and the body is closed after the callback has
\* returned and before the next attempt prepares or sends a request.
C34_CooldownBeforeClose ==
    /\ [](\A k \in DOMAIN handled :
            /\ handled[k].ctx = params.ctx
            /\ handled[k].status \in Statuses
            /\ handled[k].open)
    /\ [][cooldowns' = cooldowns + 1 =>
            /\ opened = closed + 1
            /\ closed' = closed
            /\ resp' = resp
            /\ pc' = "closeBody"
            /\ \A k \in (DOMAIN handled') \ (DOMAIN handled) :
                  handled'[k].status = resp.status]_vars
    /\ []((sends >= 1 /\ pc \in {"prepareRequest", "applyBefore", "send"}) =>
            /\ closed = cooldowns
            /\ closed = sends)

C34_Witness ==
    /\ pc = "send"
    /\ sends = 1
    /\ closed = 1
    /\ Len(handled) = 1
    /\ handled[1].ctx = "ctx1"
    /\ handled[1].status = 429
    /\ handled[1].open
    /\ ~IsBeforeDone(params.handler.rateLimitResponse)


\* The extractor of the success classifier, run on the current response, hands
\* back a value that is not nil; it hands back an error.
ExtractorResult ==
    /\ params.handler.okResponse.set
    /\ resp.status \in params.handler.okResponse.statuses
    /\ resp.body = "accepted"
    /\ params.handler.okResponse.result

ExtractorError ==
    /\ params.handler.okResponse.set
    /\ resp.status \in params.handler.okResponse.statuses
    /\ resp.body = "rejected"

\* C35: the success classifier matches exactly when its extractor returns a
\* result that is not nil or an error that is not nil; a response whose status
\* is in the success set with a nil result target and a decoder that succeeds
\* is not matched: it goes to the error classifiers and, when none of them
\* matches, to the unhandled-response path.
C35_MatchByResultOrError ==
    /\ [][(pc = "matchOK" /\ pc' # pc) =>
            IF ExtractorResult \/ ExtractorError
            THEN /\ pc' = "closeBody"
                 /\ outcome' = "matchOK"
                 /\ ~tryAgain'
                 /\ (retErr' # NoError) <=> ExtractorError
            ELSE /\ pc' = "matchError"
                 /\ UNCHANGED << retErr, outcome, tryAgain >>]_vars
    /\ []((/\ params.handler.okResponse.set
           /\ resp.status \in params.handler.okResponse.statuses
           /\ resp.body = "accepted"
           /\ ~params.handler.okResponse.result
           /\ Classified)
          => /\ outcome # "matchOK" \/ pc \notin {"closeBody", "done"}
             /\ ErrorEvaluated # << >> \/ params.handler.errorResponses = << >>
             /\ Containing = {} =>
                   \/ pc = "newUnhandledResponse"
                   \/ outcome \in {"unhandled", "read"})

C35_Witness ==
    /\ pc = "done"
    /\ outcome = "unhandled"
    /\ resp.status = StatusOK
    /\ resp.body = "accepted"
    /\ params.handler.okResponse.set
    /\ StatusOK \in params.handler.okResponse.statuses
    /\ ~params.handler.okResponse.result
    /\ Len(params.handler.errorResponses) > 0
    /\ ErrorEvaluated = [i \in 1..Len(params.handler.errorResponses) |-> i]
    /\ Has(retErr, "UnhandledResponseError")


\* C36: without a success classifier no status is a success: every response,
\* status 200 included, is handed to the error classifiers and, when the status
\* is in no status set of theirs, Do returns an unhandled-response error (or
\* the error of reading the body); Do returns nil only when a configured
\* success classifier has matched the response with a result and no error.
C36_NoDefaultSuccess ==
    /\ (~params.handler.okResponse.set /\ resp # NoResponse /\ Classified)
       => /\ \A k \in DOMAIN evalLog : evalLog[k] # 0
          /\ pc \in {"closeBody", "done"} => outcome # "matchOK"
          /\ ErrorEvaluated # << >> \/ params.handler.errorResponses = << >>
          /\ (Containing = {} /\ pc \in {"closeBody", "done"})
                => /\ outcome \in {"unhandled", "read"}
                   /\ retErr # NoError
                   /\ outcome = "unhandled" => Has(retErr, "UnhandledResponseError")
    /\ (pc = "done" /\ retErr = NoError)
       => /\ sends >= 1
          /\ outcome = "matchOK"
          /\ ExtractorResult

C36_Witness ==
    /\ pc = "done"
    /\ ~params.handler.okResponse.set
    /\ resp.status = StatusOK
    /\ outcome = "unhandled"
    /\ Has(retErr, "UnhandledResponseError")
    /\ retErr[1].status = StatusOK
    /\ Len(params.handler.errorResponses) > 0
    /\ sends = 1


\* C37: when the close of the response body fails on a rate-limited attempt
\* whose cooldown callback succeeded, Do ends at once with the close error as
\* its error and the transport is not invoked again: no request is prepared or
\* sent after the failed close.
C37_CloseErrorStopsRetry ==
    /\ [][(/\ pc = "closeBody"
            /\ pc' # pc
            /\ tryAgain
            /\ retErr = NoError
            /\ closeLog'[Len(closeLog')] # NoError)
           => /\ pc' = "done"
              /\ retErr' = NewError("close", 0)
              /\ sends' = sends
              /\ reqLog' = reqLog]_vars
    /\ [][pc = "done" => (pc' = "done" /\ sends' = sends /\ retErr' = retErr)]_vars
    /\ []((pc = "done" /\ outcome = "retry" /\ sends >= 1)
           => /\ retErr = LastClose
              /\ retErr = NewError("close", 0)
              /\ cooldowns = sends
              /\ closed = sends
              /\ Len(reqLog) = sends)

C37_Witness ==
    /\ pc = "done"
    /\ outcome = "retry"
    /\ tryAgain
    /\ sends = 2
    /\ cooldowns = 2
    /\ closeLog = << NoError, NewError("close", 0) >>
    /\ retErr = NewError("close", 0)
    /\ resp.status = 429


\* The headers the transport sees when the hooks of the descriptor have been
\* called on a request prepared from the descriptor.
HeadersSent ==
    callBefore(params.handler.beforeResponse,
               [headers |-> params.headers, body |-> "none"]).headers

\* C38: the descriptor is populated and validated once per call and the URL is
\* built once; from then on, whatever the number of attempts, the descriptor
\* (header map, handler chain, context, client) and the URL stay as they are;
\* what a pre-send hook writes to the headers of the request of one attempt does
\* not change the header map of the descriptor and is not in the request
\* prepared for the next attempt.
C38_DescriptorFrozen ==
    /\ [][pc # "newDoParams" =>
            /\ pc' # "newDoParams"
            /\ UNCHANGED << params, idx, opts, url, urlBuilder >>]_vars
    /\ [][url' # url =>
            /\ pc = "newDoParams"
            /\ idx > Len(AllOpts)
            /\ url.state = "options"
            /\ url'.state = "built"]_vars
    /\ [](sends >= 1 => url.state = "built")
    /\ [](pc = "applyBefore" => req.headers = params.headers)
    /\ [](pc = "send" => req.headers = HeadersSent)
    /\ [](\A k \in DOMAIN reqLog : reqLog[k].headers = HeadersSent)

C38_Witness ==
    /\ pc = "applyBefore"
    /\ sends = 1
    /\ cooldowns = 1
    /\ "b2" \in { params.handler.beforeResponse[k] :
                     k \in DOMAIN params.handler.beforeResponse }
    /\ params.headers = Put(<< >>, HeaderAccept, << "v1" >>)
    /\ reqLog[1].headers = Put(<< >>, HeaderAccept, << "v1", "hook" >>)
    /\ req.headers = params.headers
    /\ url.state = "built"


\* The Cooldown fragments of the call, in the order the caller wrote them, and
\* the rate-limit classifiers of the descriptor.
CooldownFragments == SelectSeq(opts, LAMBDA o : o.op = "Cooldown")

RateLimitClassifiers ==
    SelectSeq(params.handler.errorResponses, LAMBDA c : c.kind = "RateLimit")

\* C39: when several Cooldown fragments are applied, the rate-limit classifier
\* of each of them stays registered, in order, and the callback of the last one
\* is the only one kept: every cooldown of the call, also for a status that only
\* the set of the first fragment holds, calls the handler of the last fragment,
\* and the handler of an earlier fragment is never called.
C39_LastCooldownWins ==
    (/\ pc # "newDoParams"
     /\ outcome \notin {"option", "validation"}
     /\ CooldownFragments # << >>)
    => LET last == CooldownFragments[Len(CooldownFragments)]
       IN  /\ Len(RateLimitClassifiers) = Len(CooldownFragments)
           /\ \A k \in DOMAIN CooldownFragments :
                 RateLimitClassifiers[k].statuses = CooldownFragments[k].statuses
           /\ params.handler.rateLimitResponse = last.id
           /\ \A k \in DOMAIN handled : handled[k].name = Wrapped(last.id)
           /\ Len(handled) = cooldowns

C39_Witness ==
    /\ Len(CooldownFragments) = 2
    /\ CooldownFragments[1].id = "h1"
    /\ CooldownFragments[2].id = "h2"
    /\ resp.status = 429
    /\ 429 \in CooldownFragments[1].statuses
    /\ 429 \notin CooldownFragments[2].statuses
    /\ Len(RateLimitClassifiers) = 2
    /\ cooldowns = 1
    /\ Len(handled) = 1
    /\ handled[1].name = "h2"
    /\ handled[1].status = 429
    /\ pc = "closeBody"


\* The read error of io.ReadAll, as Do hands it back: no status, no headers.
ReadError == NewError("read", 0)

\* C40: when no classifier has matched and the read of the response body into
\* memory fails, Do returns the read error and no unhandled-response value, so
\* that neither the status nor the headers of the response are reported; the
\* attempt is the last one and the body of its response is closed once.
C40_ReadErrorReturned ==
    /\ [][(pc = "newUnhandledResponse" /\ pc' # pc /\ outcome' = "read")
           => /\ retErr' = ReadError
              /\ ~tryAgain'
              /\ pc' = "closeBody"
              /\ closed' = closed
              /\ opened = closed + 1]_vars
    /\ []((pc \in {"closeBody", "done"} /\ outcome = "read")
           => /\ ~Has(retErr, "UnhandledResponseError")
              /\ \A k \in DOMAIN retErr :
                    retErr[k].status = 0 /\ retErr[k].header = ""
              /\ Head(retErr) = Head(ReadError)
              /\ ErrorEvaluated = [i \in 1..Len(params.handler.errorResponses) |-> i]
              /\ resp.status \in Statuses)
    /\ []((pc = "done" /\ outcome = "read")
           => /\ closed = opened
              /\ closed = sends
              /\ Len(closeLog) = sends
              /\ retErr = Join(ReadError, LastClose))

C40_Witness ==
    /\ pc = "done"
    /\ outcome = "read"
    /\ retErr = ReadError
    /\ resp.status = 500
    /\ Len(params.handler.errorResponses) > 0
    /\ params.handler.okResponse.set
    /\ sends = 1
    /\ opened = 1
    /\ closed = 1

====
